---- MODULE Spec2Model ----
(***************************************************************************)
(* SmartSearchUI (src/themes/magazine/theme.js, class SmartSearchUI) and   *)
(* the theme descriptors registered in window.SmartSearchThemes            *)
(* (default, minimal, magazine), modelled as a state machine.              *)
(*                                                                         *)
(* JavaScript values are tagged records:                                   *)
(*   [t |-> "undefined"], [t |-> "null"], [t |-> "bool", b |-> ...],       *)
(*   [t |-> "num", n |-> ...], [t |-> "str", s |-> ...],                   *)
(*   [t |-> "fn", f |-> ...], [t |-> "arr", a |-> <<...>>],                *)
(*   [t |-> "obj", o |-> [key |-> value]].                                 *)
(***************************************************************************)
EXTENDS Integers, Sequences, FiniteSets, Bags, TLC

VARIABLES
    phase,          \* "new" | "ready" (constructor returned) | "failed" (it threw)
    config,         \* this.config, the merged configuration
    thrown,         \* the missing paths listed by the Error the constructor threw
    mTarget,        \* _deepMerge call under test: target
    mSource,        \* _deepMerge call under test: source
    mOut,           \* _deepMerge call under test: returned value (NoCall before)
    fResult,        \* getField / formatDate call under test: the result object
    fName,          \* ... the logical field name, or "formatDate"
    fOut,           \* ... the returned value (NoCall before)
    doc,            \* document: "head" (loading, no body yet) | "body" (loading) | "loaded"
    dclListeners,   \* listeners registered for DOMContentLoaded, in order
    bodyClasses,    \* ids t whose marker class theme-t is on document.body
    headLinks,      \* <link data-theme=...> elements in document.head
    currentTheme,   \* this.currentTheme (the descriptor, named by its registry key)
    currentThemeId, \* this.currentThemeId
    loadedThemeCSS, \* this.loadedThemeCSS
    lsTheme,        \* localStorage[config.theme.localStorageKey]
    bodyOpacity,    \* document.body.style.opacity
    fadePending,    \* minimal.init's 50 ms timer is pending
    magLayout,      \* magazine-layout / magazine-grid classes set, sidebar hidden
    filterBar,      \* #magazine-filter-wrapper is in the document, holding .filters-container
    expandTimers,   \* pending _addExpandButton timers, a bag
    expandBtns,     \* number of #magazine-expand-btn elements beside #facets-container
    expanded,       \* how many of them have their filter bar expanded
    dateHidden,     \* #custom-date-filter carries magazine-facet-hidden
    facetContainer, \* this.facetContainer is set
    facetBlocks,    \* children of #facets-container, in order
    resultCards,    \* children of #search-results, in order
    currentPage,    \* this.currentPage
    latestPage,     \* the page returned by the most recent successful external call
    inflight,       \* external calls awaited by suspended handlers
    returned,       \* what search() resolved with, awaited by initialize()
    paginationPage, \* id of the page whose pagination buttons are linked (0: none)
    resetPage,      \* id of the page bound to the reset-all button (0: none)
    resultsInfo,    \* the text of #results-info: the range and total it shows
    urlQuery,       \* window.location.search holds a query term
    startDate,      \* value of the #start-date input
    endDate,        \* value of the #end-date input
    dateParam,      \* the client's custom parameter config.dateFilter.solrFilterParam
    dateBound,      \* name of the facet the date inputs' change listeners filter ("": none)
    settingsBtn,    \* #settings-btn: "none" | "pending" (set up at DOMContentLoaded) | "bound"
    modal,          \* the settings modal: NoModal, or the values of its two text inputs
    lsServer,       \* localStorage[config.server.localStorageKeys.server]
    lsPreparedSearch, \* localStorage[config.server.localStorageKeys.preparedSearch]
    closeTimers,    \* pending timers of closeModal: of the open modal, of earlier ones
    reloaded,       \* window.location.reload() was called
    effects         \* what the last handler did, in order

vars == <<phase, config, thrown, mTarget, mSource, mOut, fResult, fName, fOut,
          doc, dclListeners,
          bodyClasses, headLinks, currentTheme, currentThemeId, loadedThemeCSS,
          lsTheme, bodyOpacity, fadePending, magLayout, filterBar, expandTimers,
          expandBtns, expanded, dateHidden, facetContainer, facetBlocks, resultCards,
          currentPage, latestPage, inflight, returned, paginationPage, resetPage,
          resultsInfo, urlQuery, startDate, endDate, dateParam, dateBound,
          settingsBtn, modal, closeTimers, lsServer, lsPreparedSearch, reloaded,
          effects>>

----------------------------------------------------------------------------
(* JavaScript values *)

Undefined == [t |-> "undefined"]
Null == [t |-> "null"]
Bool(b) == [t |-> "bool", b |-> b]
Num(n) == [t |-> "num", n |-> n]
Str(s) == [t |-> "str", s |-> s]
Fn(f) == [t |-> "fn", f |-> f]
Arr(a) == [t |-> "arr", a |-> a]
Obj(o) == [t |-> "obj", o |-> o]
EmptyObj == Obj([k \in {} |-> Undefined])

\* no _deepMerge call made / no value
NoCall == [t |-> "nocall"]
\* a key the caller leaves out of an object literal
Absent == [t |-> "absent"]

\* !value
Falsy(v) ==
    \/ v.t \in {"undefined", "null"}
    \/ v.t = "bool" /\ ~v.b
    \/ v.t = "num" /\ v.n = 0
    \/ v.t = "str" /\ v.s = ""

\* the string a value is converted to, as a property key or a stored item
KeyOf(value) ==
    CASE value.t = "str" -> value.s
      [] value.t = "null" -> "null"
      [] OTHER -> "undefined"

\* obj[key], obj an object
Get(obj, key) == IF key \in DOMAIN obj.o THEN obj.o[key] ELSE Undefined

\* obj?.[key]
OptGet(obj, key) == IF obj.t \in {"undefined", "null"} THEN Undefined ELSE Get(obj, key)

\* value.length
Length(v) == IF v.t = "arr" THEN Num(Len(v.a)) ELSE Undefined

\* the object literal with the Absent entries left out
Literal(rec) == Obj([k \in {x \in DOMAIN rec : rec[x].t # "absent"} |-> rec[k]])

\* property names of array indices
IndexKey(i) == <<"0", "1", "2", "3">>[i + 1]

\* the characters of the strings that occur as merge targets
Chars(s) ==
    CASE s = "" -> <<>>
      [] s = "x" -> <<"x">>
      [] s = "fq" -> <<"f", "q">>
      [] s = "en" -> <<"e", "n">>

\* Object.assign({}, target): the own enumerable properties of target
OwnProps(target) ==
    CASE target.t = "obj" -> target.o
      [] target.t = "arr" ->
            [k \in {IndexKey(i - 1) : i \in 1..Len(target.a)} |->
                target.a[CHOOSE i \in 1..Len(target.a) : IndexKey(i - 1) = k]]
      [] target.t = "str" ->
            [k \in {IndexKey(i - 1) : i \in 1..Len(Chars(target.s))} |->
                Str(Chars(target.s)[CHOOSE i \in 1..Len(Chars(target.s)) : IndexKey(i - 1) = k])]
      [] OTHER -> EmptyObj.o

\* _isObject(item)
IsObject(item) == item.t = "obj"

\* _deepMerge(target, source)
RECURSIVE DeepMerge(_, _)
DeepMerge(target, source) ==
    LET output == OwnProps(target)
    IN  IF IsObject(target) /\ IsObject(source)
        THEN Obj([key \in DOMAIN output \cup DOMAIN source.o |->
                IF key \in DOMAIN source.o
                THEN IF IsObject(source.o[key])
                     THEN IF key \notin DOMAIN target.o
                          THEN source.o[key]
                          ELSE DeepMerge(target.o[key], source.o[key])
                     ELSE source.o[key]
                ELSE output[key]])
        ELSE Obj(output)

\* the defaults literal of _mergeConfig
Defaults ==
    Obj([
        server |-> Obj([
            defaultURL |-> Null,
            defaultPreparedSearch |-> Null,
            localStorageKeys |-> Obj([
                server |-> Str("smartsearch-server"),
                preparedSearch |-> Str("smartsearch-prepared-search")])]),
        facets |-> Obj([displayNames |-> EmptyObj]),
        dateFilter |-> Obj([
            enabled |-> Bool(TRUE),
            fieldName |-> Null,
            solrFilterParam |-> Str("fq")]),
        resultFields |-> Obj([
            title |-> Obj([field |-> Null, fallback |-> Str("Untitled")]),
            description |-> Obj([
                fields |-> Arr(<<>>),
                fallback |-> Str("No description available"),
                useHighlighting |-> Bool(TRUE)]),
            link |-> Obj([fields |-> Arr(<<>>), fallback |-> Str("#")]),
            date |-> Obj([
                field |-> Null,
                format |-> Obj([year |-> Str("numeric"), month |-> Str("short"),
                                day |-> Str("numeric")]),
                locale |-> Str("en"),
                fallback |-> Str("No date")]),
            language |-> Obj([field |-> Null, default |-> Str("EN")])]),
        features |-> Obj([
            settingsModal |-> Bool(TRUE),
            fieldInspector |-> Bool(TRUE),
            dateFilter |-> Bool(TRUE),
            instantFiltering |-> Bool(TRUE),
            didYouMean |-> Bool(TRUE),
            smoothScrolling |-> Bool(TRUE)]),
        ui |-> Obj([
            resultsPerPage |-> Num(10),
            maxPaginationButtons |-> Num(5),
            showResultCount |-> Bool(TRUE),
            emptyStateMessage |-> Str("Enter a search query to get started"),
            emptyStateIcon |-> Str("search"),
            errorStateIcon |-> Str("warning")]),
        hooks |-> Obj([
            beforeSearch |-> Null,
            afterSearch |-> Null,
            onResultClick |-> Null,
            beforeRender |-> Null,
            afterRender |-> Null]),
        resultTemplate |-> Null])

\* _mergeConfig(userConfig)
MergeConfig(userConfig) == DeepMerge(Defaults, userConfig)

\* config.<group>.<leaf>
Leaf2(cfg, group, leaf) == Get(Get(cfg, group), leaf)

\* config.resultFields.<name>.<leaf>
FieldCfg(cfg, name, leaf) == Get(Get(Get(cfg, "resultFields"), name), leaf)

\* the entry _validateConfig pushes for a missing dateFilter.fieldName
DateFilterFieldName ==
    "dateFilter.fieldName (required when dateFilter.enabled = true)"

\* a validation whose checks each throw at once: only the first missing path is reported
ValidateFirstOnly(cfg) ==
    IF Falsy(Leaf2(cfg, "server", "defaultURL")) THEN <<"server.defaultURL">>
    ELSE IF Falsy(Leaf2(cfg, "server", "defaultPreparedSearch"))
         THEN <<"server.defaultPreparedSearch">>
    ELSE IF Falsy(FieldCfg(cfg, "title", "field")) THEN <<"resultFields.title.field">>
    ELSE IF Falsy(FieldCfg(cfg, "description", "fields"))
            \/ Length(FieldCfg(cfg, "description", "fields")) = Num(0)
         THEN <<"resultFields.description.fields">>
    ELSE IF Falsy(FieldCfg(cfg, "link", "fields"))
            \/ Length(FieldCfg(cfg, "link", "fields")) = Num(0)
         THEN <<"resultFields.link.fields">>
    ELSE IF ~Falsy(Leaf2(cfg, "dateFilter", "enabled"))
            /\ Falsy(Leaf2(cfg, "dateFilter", "fieldName"))
         THEN <<DateFilterFieldName>>
    ELSE <<>>

\* _validateConfig(): the `required` list; the method throws when it is not empty
ValidateConfig(cfg) ==
    LET r1 == IF Falsy(Leaf2(cfg, "server", "defaultURL"))
              THEN <<"server.defaultURL">> ELSE <<>>
        r2 == IF Falsy(Leaf2(cfg, "server", "defaultPreparedSearch"))
              THEN Append(r1, "server.defaultPreparedSearch") ELSE r1
        r3 == IF Falsy(FieldCfg(cfg, "title", "field"))
              THEN Append(r2, "resultFields.title.field") ELSE r2
        r4 == IF Falsy(FieldCfg(cfg, "description", "fields"))
                 \/ Length(FieldCfg(cfg, "description", "fields")) = Num(0)
              THEN Append(r3, "resultFields.description.fields") ELSE r3
        r5 == IF Falsy(FieldCfg(cfg, "link", "fields"))
                 \/ Length(FieldCfg(cfg, "link", "fields")) = Num(0)
              THEN Append(r4, "resultFields.link.fields") ELSE r4
        r6 == IF ~Falsy(Leaf2(cfg, "dateFilter", "enabled"))
                 /\ Falsy(Leaf2(cfg, "dateFilter", "fieldName"))
              THEN Append(r5, DateFilterFieldName) ELSE r5
    IN  r6

----------------------------------------------------------------------------
(* The document and the instance, as one record that the synchronous code  *)
(* of a handler transforms step by step.  The page is the project's        *)
(* index.html: .content-grid, .sidebar with .filters-container holding     *)
(* #facets-container and #custom-date-filter, .results-section,            *)
(* #search-results and #pagination all exist once the body is parsed.      *)

\* localStorage.getItem(key) === null
NoItem == [t |-> "null"]

\* no #settings-backdrop in the document
NoModal == [open |-> FALSE]

\* no exception is propagating
NoError == [t |-> "noerror"]

\* no initialize() is waiting for the promise of search()
NoReturn == [pending |-> FALSE]

\* no closeModal timer is pending
NoCloseTimers == [live |-> 0, stale |-> 0]

World ==
    [doc |-> doc, dclListeners |-> dclListeners, bodyClasses |-> bodyClasses,
     headLinks |-> headLinks, currentTheme |-> currentTheme,
     currentThemeId |-> currentThemeId, loadedThemeCSS |-> loadedThemeCSS,
     lsTheme |-> lsTheme, bodyOpacity |-> bodyOpacity, fadePending |-> fadePending,
     magLayout |-> magLayout, filterBar |-> filterBar, expandTimers |-> expandTimers,
     expandBtns |-> expandBtns, expanded |-> expanded, dateHidden |-> dateHidden,
     facetContainer |-> facetContainer, facetBlocks |-> facetBlocks,
     resultCards |-> resultCards, currentPage |-> currentPage,
     latestPage |-> latestPage, inflight |-> inflight, returned |-> returned,
     paginationPage |-> paginationPage, resetPage |-> resetPage,
     resultsInfo |-> resultsInfo, urlQuery |-> urlQuery, startDate |-> startDate,
     endDate |-> endDate, dateParam |-> dateParam, dateBound |-> dateBound,
     settingsBtn |-> settingsBtn, modal |-> modal, closeTimers |-> closeTimers,
     lsServer |-> lsServer,
     lsPreparedSearch |-> lsPreparedSearch, reloaded |-> reloaded,
     threw |-> NoError,
     effects |-> <<>>]

Becomes(w) ==
    /\ doc' = w.doc
    /\ dclListeners' = w.dclListeners
    /\ bodyClasses' = w.bodyClasses
    /\ headLinks' = w.headLinks
    /\ currentTheme' = w.currentTheme
    /\ currentThemeId' = w.currentThemeId
    /\ loadedThemeCSS' = w.loadedThemeCSS
    /\ lsTheme' = w.lsTheme
    /\ bodyOpacity' = w.bodyOpacity
    /\ fadePending' = w.fadePending
    /\ magLayout' = w.magLayout
    /\ filterBar' = w.filterBar
    /\ expandTimers' = w.expandTimers
    /\ expandBtns' = w.expandBtns
    /\ expanded' = w.expanded
    /\ dateHidden' = w.dateHidden
    /\ facetContainer' = w.facetContainer
    /\ facetBlocks' = w.facetBlocks
    /\ resultCards' = w.resultCards
    /\ currentPage' = w.currentPage
    /\ latestPage' = w.latestPage
    /\ inflight' = w.inflight
    /\ returned' = w.returned
    /\ paginationPage' = w.paginationPage
    /\ resetPage' = w.resetPage
    /\ resultsInfo' = w.resultsInfo
    /\ urlQuery' = w.urlQuery
    /\ startDate' = w.startDate
    /\ endDate' = w.endDate
    /\ dateParam' = w.dateParam
    /\ dateBound' = w.dateBound
    /\ settingsBtn' = w.settingsBtn
    /\ modal' = w.modal
    /\ closeTimers' = w.closeTimers
    /\ lsServer' = w.lsServer
    /\ lsPreparedSearch' = w.lsPreparedSearch
    /\ reloaded' = w.reloaded
    /\ effects' = w.effects

Log(w, what, id) == [w EXCEPT !.effects = Append(@, <<what, id>>)]

\* document.body
HasBody(w) == w.doc # "head"

\* document.readyState === 'loading'
IsLoading(w) == w.doc # "loaded"

----------------------------------------------------------------------------
(* Theme descriptors: window.SmartSearchThemes *)

\* this.themeRegistry: the keys of window.SmartSearchThemes
ThemeRegistry == {"default", "minimal", "magazine"}

\* null / undefined theme reference
NoTheme == "(none)"

\* theme.components.renderFacet is defined
HasRenderFacet(theme) == theme \in {"minimal", "magazine"}

\* theme.components.renderResultCard is defined
HasRenderResultCard(theme) == theme \in {"minimal", "magazine"}

\* _addExpandButton gives up rescheduling at this retryCount
MaxRetry == 5

\* setTimeout(callback): one more pending timer
AddTimer(timers, timer) == timers (+) SetToBag({timer})

\* the timer fired
RemoveTimer(timers, timer) == timers (-) SetToBag({timer})

\* the pending timers once destroy detached the filter bar their closures
\* hold: none of them finds #facets-container in it any more
Detached(timers) ==
    LET retries == {t.retry : t \in BagToSet(timers)}
    IN  [t \in {[live |-> FALSE, retry |-> r] : r \in retries} |->
            CopiesIn([live |-> TRUE, retry |-> t.retry], timers)
                + CopiesIn(t, timers)]

\* magazine.init: the restructure closure
Restructure(w) ==
    LET w1 == [w EXCEPT !.magLayout = TRUE]
    IN  IF ~w.filterBar
        THEN [w1 EXCEPT !.filterBar = TRUE,
                        !.expandTimers = AddTimer(@, [live |-> TRUE, retry |-> 0])]
        ELSE w1

\* theme.init(uiInstance)
InitHook(w, theme) ==
    LET w1 == Log(w, "init", theme)
    IN  CASE theme = "minimal" ->
                IF HasBody(w1)
                THEN [w1 EXCEPT !.bodyOpacity = "0", !.fadePending = TRUE]
                ELSE w1
          [] theme = "magazine" ->
                IF HasBody(w1)
                THEN IF IsLoading(w1)
                     THEN [w1 EXCEPT !.dclListeners =
                                Append(@, [kind |-> "restructure", id |-> "magazine"])]
                     ELSE Restructure(w1)
                ELSE w1
          [] OTHER -> w1

\* theme.destroy(uiInstance)
DestroyHook(w, theme) ==
    LET w1 == Log(w, "destroy", theme)
    IN  IF theme = "magazine"
        THEN IF w1.filterBar
             THEN [w1 EXCEPT !.magLayout = FALSE, !.filterBar = FALSE,
                             !.expandTimers = Detached(@)]
             ELSE [w1 EXCEPT !.magLayout = FALSE]
        ELSE w1

----------------------------------------------------------------------------
(* Theme activation *)

\* an unload that forgets the stylesheet links it added
UnloadThemeKeepCSS(w) ==
    IF w.currentTheme = NoTheme THEN w
    ELSE LET w1 == DestroyHook(w, w.currentTheme)
             w2 == IF HasBody(w1) /\ w1.currentThemeId # NoTheme
                   THEN Log([w1 EXCEPT !.bodyClasses = @ \ {w1.currentThemeId}],
                            "unmark", w1.currentThemeId)
                   ELSE w1
         IN  [w2 EXCEPT !.loadedThemeCSS = <<>>,
                        !.currentTheme = NoTheme, !.currentThemeId = NoTheme]

\* _unloadTheme()
UnloadTheme(w) ==
    IF w.currentTheme = NoTheme THEN w
    ELSE LET w1 == DestroyHook(w, w.currentTheme)
             w2 == IF HasBody(w1) /\ w1.currentThemeId # NoTheme
                   THEN Log([w1 EXCEPT !.bodyClasses = @ \ {w1.currentThemeId}],
                            "unmark", w1.currentThemeId)
                   ELSE w1
             links == {w2.loadedThemeCSS[i] : i \in 1..Len(w2.loadedThemeCSS)}
         IN  [w2 EXCEPT !.headLinks = @ \ links,
                        !.loadedThemeCSS = <<>>,
                        !.currentTheme = NoTheme, !.currentThemeId = NoTheme]

\* _loadThemeCSS(cssFile, themeId)
LoadThemeCSS(w, themeId) ==
    IF \E l \in w.headLinks : l.theme = themeId
    THEN w
    ELSE LET link == [theme |-> themeId, own |-> TRUE]
         IN  Log([w EXCEPT !.headLinks = @ \cup {link},
                           !.loadedThemeCSS = Append(@, link)], "link", themeId)

\* _applyThemeClass: the applyClass closure
ApplyClass(w, themeId) ==
    IF HasBody(w)
    THEN LET w1 == Log([w EXCEPT !.bodyClasses = @ \cup {themeId}], "mark", themeId)
         IN  IF w1.currentTheme # NoTheme
             THEN InitHook(w1, w1.currentTheme)
             ELSE w1
    ELSE w

\* _applyThemeClass(themeId)
ApplyThemeClass(w, themeId) ==
    IF HasBody(w)
    THEN ApplyClass(w, themeId)
    ELSE IF IsLoading(w)
         THEN [w EXCEPT !.dclListeners =
                    Append(@, [kind |-> "applyClass", id |-> themeId])]
         ELSE ApplyClass(w, themeId)

\* a load that unloads the current theme before it looks the new id up
LoadThemeUnloadFirst(w, themeId) ==
    LET w1 == IF w.currentTheme # NoTheme THEN UnloadTheme(w) ELSE w
    IN  IF themeId \notin ThemeRegistry
        THEN Log(w1, "warn", themeId)
        ELSE LET w2 == LoadThemeCSS(w1, themeId)
                 w3 == [w2 EXCEPT !.currentTheme = themeId,
                                  !.currentThemeId = themeId]
             IN  ApplyThemeClass(w3, themeId)

\* _loadTheme(themeId)
LoadTheme(w, themeId) ==
    IF themeId \notin ThemeRegistry
    THEN Log(w, "warn", themeId)
    ELSE LET w1 == IF w.currentTheme # NoTheme THEN UnloadTheme(w) ELSE w
             w2 == LoadThemeCSS(w1, themeId)
             w3 == [w2 EXCEPT !.currentTheme = themeId,
                              !.currentThemeId = themeId]
         IN  ApplyThemeClass(w3, themeId)

----------------------------------------------------------------------------
(* Result pages of the external search client *)

\* the largest number of blocks #facets-container is let to hold
MaxBlocks == 3

\* the largest number of expand buttons the document is let to hold
MaxButtons == 2

\* an Error the external client rejects with
NetworkError == Obj([message |-> Str("Network down")])

\* the TypeError of reading a property of null or undefined
TypeError == Obj([message |-> Str("Cannot read properties")])

\* the client holds no custom parameter of that name
NoParam == "(unset)"

\* the empty text of #results-info
NoText == [start |-> 0, end |-> 0, total |-> 0]

\* this.currentPage = null
NoPage ==
    [id |-> 0, facets |-> <<>>, results |-> 0, badResult |-> 0,
     numRows |-> Undefined, pageNo |-> Undefined, rows |-> Undefined]

\* a page of the client: `results` entries in page.searchResults, of which the
\* badResult-th (0: none) has no `result` member; responseData.numRows,
\* paginationParams.page and responseData.rows as the client reports them
\* (Undefined: the member is missing). The clients modelled report their counts
\* in these three members only, so the later members of the || chains that
\* read them are undefined.
PageOf(id, facets, results, badResult, numRows, pageNo, rows) ==
    [id |-> id, facets |-> facets, results |-> results, badResult |-> badResult,
     numRows |-> numRows, pageNo |-> pageNo, rows |-> rows]

\* a facet of the client: its name, and whether it carries its counts list
Facet(name) == [name |-> name, counts |-> TRUE, selectedValues |-> {}]
FacetWithoutCounts(name) == [name |-> name, counts |-> FALSE, selectedValues |-> {}]

\* a facet whose selectedValues the client reports
SelectedFacet(name, values) ==
    [name |-> name, counts |-> TRUE, selectedValues |-> values]

\* the values of facet.counts, by facet
CountValues(name) ==
    CASE name = "mime_type" -> {"pdf", "doc"}
      [] name = "language" -> {"en"}
      [] OTHER -> {}

\* every facet value
FacetValueSet == {"pdf", "doc", "en"}

\* the facet values in the order a block lists their controls
ValueOrder == <<"pdf", "doc", "en">>

\* these values as a block lists them
InOrder(values) == SelectSeq(ValueOrder, LAMBDA value : value \in values)

\* values.join(','), values a list of facet values, from the i-th on
RECURSIVE JoinValues(_, _)
JoinValues(values, i) ==
    IF i > Len(values) THEN ""
    ELSE IF i = Len(values) THEN values[i]
    ELSE values[i] \o "," \o JoinValues(values, i + 1)

\* the call facet.filter(...values) of the facet of this name
FilterCall(name, values) == name \o "(" \o JoinValues(values, 1) \o ")"

\* the pages the external client answers with: `results` result wrappers, of
\* which the badResult-th (0: none) has no `result` member
Pages ==
    {PageOf(1, <<Facet("mime_type")>>, 1, 0, Num(1), Num(1), Num(2)),
     PageOf(2, <<Facet("mime_type"), Facet("language")>>, 2, 0, Num(3), Num(1), Num(2)),
     PageOf(3, <<>>, 0, 0, Num(0), Num(1), Num(2))}

\* pages with an item that makes its renderer throw: a facet without counts,
\* a result wrapper without result
MalformedPages ==
    {PageOf(4, <<FacetWithoutCounts("mime_type"), Facet("language")>>, 2, 0,
            Num(2), Num(1), Num(2)),
     PageOf(5, <<Facet("mime_type")>>, 2, 1, Num(2), Num(1), Num(2))}

----------------------------------------------------------------------------
(* Rendering *)

\* initFacetContainer(page)
InitFacetContainer(w, page) ==
    IF ~HasBody(w)
    THEN [w EXCEPT !.facetContainer = FALSE]
    ELSE [w EXCEPT !.facetContainer = TRUE, !.facetBlocks = <<>>,
                   !.resetPage = page.id]

\* theme.eventHandlers.attachFacetListeners is defined
HasAttachFacetListeners(theme) == theme \in {"minimal", "magazine"}

\* theme.eventHandlers.attachCardListeners is defined
HasAttachCardListeners(theme) == theme \in {"minimal", "magazine"}

\* renderFacet(facet): the theme's override or _renderFacetDefault; both read
\* facet.counts before anything is appended
RenderFacet(w, facet) ==
    IF w.threw # NoError \/ ~w.facetContainer THEN w
    ELSE IF ~facet.counts THEN [w EXCEPT !.threw = TypeError]
    ELSE IF w.currentTheme # NoTheme /\ HasRenderFacet(w.currentTheme)
         THEN [w EXCEPT !.facetBlocks =
                    Append(@, [facet |-> facet, by |-> w.currentTheme,
                               selected |-> facet.selectedValues,
                               listeners |->
                                    IF HasAttachFacetListeners(w.currentTheme)
                                    THEN w.currentTheme ELSE "none"])]
         ELSE [w EXCEPT !.facetBlocks =
                    Append(@, [facet |-> facet, by |-> "builtin",
                               selected |-> facet.selectedValues,
                               listeners |-> "builtin"])]

\* page.facets.forEach(facet => this.renderFacet(facet)), from the i-th facet on
RECURSIVE RenderFacetsFrom(_, _, _)
RenderFacetsFrom(w, facets, i) ==
    IF i > Len(facets) \/ w.threw # NoError THEN w
    ELSE RenderFacetsFrom(RenderFacet(w, facets[i]), facets, i + 1)

\* _setupDateFilter(page): the change listeners of the date inputs filter
\* page.facets[0]
SetupDateFilter(w, page) ==
    IF HasBody(w) THEN [w EXCEPT !.dateBound = page.facets[1].name] ELSE w

\* renderAllFacets(page)
RenderAllFacets(w, cfg, page) ==
    IF w.threw # NoError \/ Len(page.facets) = 0 THEN w
    ELSE LET w1 == IF ~Falsy(Leaf2(cfg, "dateFilter", "enabled"))
                   THEN SetupDateFilter(w, page) ELSE w
         IN  RenderFacetsFrom(w1, page.facets, 1)

\* the cards one render pass appends before a wrapper without result, if any,
\* makes the renderer throw
CardsOf(page, by, listeners) ==
    [i \in 1..(IF page.badResult > 0 THEN page.badResult - 1 ELSE page.results) |->
        [kind |-> "card", by |-> by, listeners |-> listeners, page |-> page.id]]

\* _renderWithCustomTemplate(page, container), config.resultTemplate being a
\* function that reads fields of the result it is given, as the README's does
RenderWithCustomTemplate(w, page) == CardsOf(page, "template", "none")

\* _renderDefaultCards(page, container)
RenderDefaultCards(w, page) ==
    IF w.currentTheme # NoTheme /\ HasRenderResultCard(w.currentTheme)
    THEN CardsOf(page, w.currentTheme,
                 IF HasAttachCardListeners(w.currentTheme)
                 THEN w.currentTheme ELSE "none")
    ELSE CardsOf(page, "builtin", "builtin")

\* a || b for a number-valued member a that may be missing, and a number b
OrElse(value, fallback) == IF Falsy(value) THEN fallback ELSE value.n

\* (page.responseData && page.responseData.numRows) || page.numRows ||
\* page.totalHits || page.totalResults || page.total || 0
TotalResults(page) == OrElse(page.numRows, 0)

\* (page.paginationParams && page.paginationParams.page) || page.pageNumber ||
\* page.currentPage || page.page || 1
CurrentPageOf(page) == OrElse(page.pageNo, 1)

\* (page.responseData && page.responseData.rows) || page.rows ||
\* page.pageSize || page.size || 10
PageSizeOf(page) == OrElse(page.rows, 10)

\* what calling a configured hook throws (NoError: it returns its argument)
HookThrows(hook) ==
    CASE hook.f = "throwUndefined" -> Undefined
      [] hook.f = "throwError" -> Obj([message |-> Str("hook failed")])
      [] OTHER -> NoError

\* renderSearchResults(page): the beforeRender hook, the empty state or the
\* cards and the pagination, the afterRender hook
RenderSearchResults(w, cfg, page) ==
    LET beforeRender == Leaf2(cfg, "hooks", "beforeRender")
        afterRender == Leaf2(cfg, "hooks", "afterRender")
        beforeError == IF Falsy(beforeRender) THEN NoError
                       ELSE HookThrows(beforeRender)
        afterError == IF Falsy(afterRender) THEN NoError
                      ELSE HookThrows(afterRender)
        cards == IF ~Falsy(Get(cfg, "resultTemplate"))
                 THEN RenderWithCustomTemplate(w, page)
                 ELSE RenderDefaultCards(w, page)
    IN  IF w.threw # NoError \/ ~HasBody(w) THEN w
        ELSE IF beforeError # NoError THEN [w EXCEPT !.threw = beforeError]
        ELSE IF page.results = 0 \/ TotalResults(page) = 0
             THEN [w EXCEPT !.paginationPage = 0,
                            !.resultCards = <<[kind |-> "empty", by |-> "builtin",
                                               page |-> page.id]>>]
        ELSE IF page.badResult > 0
             THEN [w EXCEPT !.resultCards = cards, !.paginationPage = 0,
                            !.threw = TypeError]
        ELSE [w EXCEPT !.resultCards = cards, !.paginationPage = page.id,
                       !.threw = afterError]

\* showEmptyState()
ShowEmptyState(w) ==
    IF ~HasBody(w) THEN w
    ELSE [w EXCEPT !.resultCards = <<[kind |-> "start", by |-> "builtin", page |-> 0]>>,
                   !.resultsInfo = NoText]

\* showErrorState(error): the template reads error.message before anything is written
ShowErrorState(w, error) ==
    IF ~HasBody(w) THEN w
    ELSE IF error.t \in {"undefined", "null"}
         THEN [w EXCEPT !.threw = TypeError]
         ELSE [w EXCEPT !.resultCards =
                    <<[kind |-> "error", by |-> "builtin", page |-> 0]>>]

\* Math.min(a, b)
MathMin(a, b) == IF a < b THEN a ELSE b

\* the text with the end of the range left at currentPage * pageSize
ResultsTextNoMin(page) ==
    IF TotalResults(page) > 0
    THEN [start |-> ((CurrentPageOf(page) - 1) * PageSizeOf(page)) + 1,
          end |-> CurrentPageOf(page) * PageSizeOf(page),
          total |-> TotalResults(page)]
    ELSE NoText

\* the text of #results-info after updateResultsInfo(page, query) wrote it:
\* "Showing start-end of total results for ..." or the empty text
ResultsText(page) ==
    IF TotalResults(page) > 0
    THEN [start |-> ((CurrentPageOf(page) - 1) * PageSizeOf(page)) + 1,
          end |-> MathMin(CurrentPageOf(page) * PageSizeOf(page), TotalResults(page)),
          total |-> TotalResults(page)]
    ELSE NoText

\* updateResultsInfo(page, query)
UpdateResultsInfo(w, page) ==
    IF w.threw # NoError \/ ~HasBody(w) \/ ~w.urlQuery THEN w
    ELSE [w EXCEPT !.resultsInfo = ResultsText(page)]

\* search(query): the catch block; search rejects when the catch block throws
SearchCatch(w, error) ==
    LET w1 == ShowErrorState(Log(w, "error", "search"), error)
    IN  IF w1.threw # NoError THEN Log(w1, "rejects", "search") ELSE w1

\* initialize(): after `await this.search(queryTerm)` gave `page` (NoPage: null)
\* or rejected
InitializeResume(w, cfg, page) ==
    IF w.threw # NoError THEN Log(w, "uncaught", "initialize")
    ELSE IF page = NoPage THEN w
    ELSE LET w1 == [w EXCEPT !.currentPage = page]
             w2 == RenderAllFacets(InitFacetContainer(w1, page), cfg, page)
             w3 == UpdateResultsInfo(RenderSearchResults(w2, cfg, page), page)
         IN  IF w3.threw # NoError THEN Log(w3, "uncaught", "initialize") ELSE w3

\* search() settles with `page` (NoPage: null) or with the exception w.threw:
\* initialize(), which awaits it, resumes in a later microtask
SearchReturns(w, page) ==
    [w EXCEPT !.returned = [pending |-> TRUE, page |-> page, threw |-> w.threw],
              !.threw = NoError,
              !.inflight = @ \cup {"initialize"}]

\* initialize() with a query term, up to the await of this.fsss.search(query)
InitializeStart(w, cfg) ==
    LET hook == Leaf2(cfg, "hooks", "beforeSearch")
        error == IF Falsy(hook) THEN NoError ELSE HookThrows(hook)
    IN  IF error = NoError
        THEN [w EXCEPT !.inflight = @ \cup {"search"}]
        ELSE SearchReturns(SearchCatch(w, error), NoPage)

\* search(query) once this.fsss.search(query) has settled
SearchSettled(w, cfg, ok, page, error) ==
    LET hook == Leaf2(cfg, "hooks", "afterSearch")
        hookError == IF Falsy(hook) THEN NoError ELSE HookThrows(hook)
    IN  IF ~ok THEN SearchReturns(SearchCatch(w, error), NoPage)
        ELSE IF hookError # NoError
             THEN SearchReturns(SearchCatch(w, hookError), NoPage)
             ELSE SearchReturns([w EXCEPT !.latestPage = page], page)

\* switchTheme(themeId)
SwitchThemeBody(w, themeId, cfg) ==
    LET w1 == IF ~Falsy(OptGet(Get(cfg, "theme"), "localStorageKey"))
              THEN [w EXCEPT !.lsTheme = themeId] ELSE w
        w2 == LoadTheme(Log(w1, "switchTheme", themeId), themeId)
        w3 == RenderSearchResults(RenderAllFacets(w2, cfg, w2.currentPage), cfg,
                                  w2.currentPage)
    IN  IF w2.currentPage = NoPage THEN w2
        ELSE IF w3.threw # NoError THEN Log(w3, "throws", "switchTheme")
        ELSE w3

----------------------------------------------------------------------------
(* Configurations handed to the constructor *)

\* a user configuration: each argument is a value or Absent
UserConfig(url, search, title, descr, link, enabled, fieldName, dateField, langField, themeDefault) ==
    Literal([
        server |-> Literal([defaultURL |-> url, defaultPreparedSearch |-> search]),
        resultFields |-> Literal([
            title |-> Literal([field |-> title]),
            description |-> Literal([fields |-> descr]),
            link |-> Literal([fields |-> link]),
            date |-> Literal([field |-> dateField]),
            language |-> Literal([field |-> langField])]),
        dateFilter |-> Literal([enabled |-> enabled, fieldName |-> fieldName]),
        theme |-> IF themeDefault.t = "absent" THEN Absent
                  ELSE Obj([default |-> themeDefault,
                            localStorageKey |-> Str("smartsearch-theme")])])

\* every combination of supplied and missing leaves
AllUserConfigs ==
    {UserConfig(url, search, title, descr, link, enabled, fieldName, dateField,
                langField, Absent) :
        url \in {Absent, Str(""), Str("https://api")},
        search \in {Absent, Str("Index")},
        title \in {Absent, Str("title")},
        descr \in {Absent, Arr(<<>>), Arr(<<Str("content"), Str("text")>>)},
        link \in {Absent, Arr(<<Str("link")>>)},
        enabled \in {Absent, Bool(FALSE)},
        fieldName \in {Absent, Str("meta_date")},
        dateField \in {Absent, Str("date")},
        langField \in {Absent, Str("language_keyword")}}

\* the ids a caller may ask for: the registered ones and one that is not
ThemeIds == ThemeRegistry \cup {"ghost"}

\* complete configurations that differ in the theme group, and one incomplete
ThemedUserConfigs ==
    {UserConfig(Str("https://api"), Str("Index"), Str("title"),
                Arr(<<Str("content"), Str("text")>>), Arr(<<Str("link")>>),
                Absent, Str("meta_date"), Str("date"), Str("language_keyword"), th) :
        th \in {Absent} \cup {Str(id) : id \in ThemeIds}}
    \cup {UserConfig(Absent, Str("Index"), Str("title"), Absent,
                     Arr(<<Str("link")>>), Absent, Absent, Absent, Absent, Absent)}

----------------------------------------------------------------------------
(* Actions *)

\* bounds on what may be pending at once
MaxListeners == 3
MaxTimers == 2

\* no handler is let to add to a full listener list or timer set
Within(w) ==
    /\ Len(w.dclListeners) <= MaxListeners
    /\ BagCardinality(w.expandTimers) <= MaxTimers

\* _setupSettingsButton()
SetupSettingsButton(w) ==
    IF HasBody(w) THEN [w EXCEPT !.settingsBtn = "bound"] ELSE w

\* _initSettingsButton()
InitSettingsButton(w) ==
    IF IsLoading(w) THEN [w EXCEPT !.settingsBtn = "pending"]
    ELSE SetupSettingsButton(w)

\* _init()
InitUI(w, cfg) ==
    IF ~Falsy(Leaf2(cfg, "features", "settingsModal")) THEN InitSettingsButton(w)
    ELSE w

configVars == <<phase, config, thrown>>
mergeVars == <<mTarget, mSource, mOut>>
callVars == <<fResult, fName, fOut>>

\* new SmartSearchUI(fsss, userConfig)
Construct(userConfig) ==
    /\ phase = "new"
    /\ LET cfg == MergeConfig(userConfig)
           required == ValidateConfig(cfg)
           themeDefault == OptGet(Get(cfg, "theme"), "default")
           themeId == IF Falsy(themeDefault) THEN "default" ELSE themeDefault.s
       IN  /\ config' = cfg
           /\ thrown' = required
           /\ IF Len(required) > 0
              THEN /\ phase' = "failed"
                   /\ Becomes(World)
              ELSE /\ phase' = "ready"
                   /\ Within(LoadTheme(World, themeId))
                   /\ Becomes(InitUI(LoadTheme(World, themeId), cfg))
    /\ UNCHANGED <<mergeVars, callVars>>

\* ui.switchTheme(themeId)
SwitchTheme(themeId) ==
    /\ phase = "ready"
    /\ currentPage # NoPage => Len(facetBlocks) + Len(currentPage.facets) <= MaxBlocks
    /\ Within(SwitchThemeBody(World, themeId, config))
    /\ Becomes(SwitchThemeBody(World, themeId, config))
    /\ UNCHANGED <<configVars, mergeVars, callVars>>

\* An event handler, a timer callback or a parsing step is a task of its own:
\* it starts only when no continuation of an async function is waiting, as
\* initialize() is between the return of search() and its own resumption.
TaskStarts == ~returned.pending

\* the parser has created document.body and the page's elements
BodyParsed ==
    /\ TaskStarts
    /\ doc = "head"
    /\ Becomes([World EXCEPT !.doc = "body"])
    /\ UNCHANGED <<configVars, mergeVars, callVars>>

\* the DOMContentLoaded listeners, called in the order they were added
RECURSIVE RunListeners(_, _, _)
RunListeners(w, listeners, i) ==
    IF i > Len(listeners) THEN w
    ELSE RunListeners(IF listeners[i].kind = "applyClass"
                      THEN ApplyClass(w, listeners[i].id)
                      ELSE Restructure(w),
                      listeners, i + 1)

\* the document fires DOMContentLoaded
DOMContentLoaded ==
    /\ TaskStarts
    /\ doc = "body"
    /\ LET w == RunListeners([World EXCEPT !.doc = "loaded", !.dclListeners = <<>>],
                             dclListeners, 1)
       IN  Becomes(IF settingsBtn = "pending" THEN SetupSettingsButton(w) ELSE w)
    /\ UNCHANGED <<configVars, mergeVars, callVars>>

\* ui._unloadTheme(), called on its own
UnloadThemeCall ==
    /\ phase = "ready"
    /\ Becomes(UnloadTheme(World))
    /\ UNCHANGED <<configVars, mergeVars, callVars>>

\* minimal.init: the 50 ms timer
FadeTimer ==
    /\ TaskStarts
    /\ fadePending
    /\ Becomes([World EXCEPT !.fadePending = FALSE, !.bodyOpacity = "1"])
    /\ UNCHANGED <<configVars, mergeVars, callVars>>

\* _addExpandButton retrying while retryCount <= 5
AddExpandButtonOneMore(w, timer) ==
    LET w1 == [w EXCEPT !.expandTimers = RemoveTimer(@, timer)]
        retryLater == [w1 EXCEPT !.expandTimers =
                            AddTimer(@, [live |-> timer.live, retry |-> timer.retry + 1])]
        facets == Len(w1.facetBlocks)
    IN  IF ~timer.live
        THEN IF timer.retry <= MaxRetry THEN retryLater ELSE w1
        ELSE IF facets = 0 /\ timer.retry <= MaxRetry
             THEN retryLater
             ELSE [w1 EXCEPT !.dateHidden = TRUE, !.expandBtns = @ + 1]

\* magazine._addExpandButton(filterBar, retryCount), called by its timer
AddExpandButton(w, timer) ==
    LET w1 == [w EXCEPT !.expandTimers = RemoveTimer(@, timer)]
        retryLater == [w1 EXCEPT !.expandTimers =
                            AddTimer(@, [live |-> timer.live, retry |-> timer.retry + 1])]
        facets == Len(w1.facetBlocks)
    IN  IF ~timer.live
        THEN IF timer.retry < MaxRetry THEN retryLater ELSE w1
        ELSE IF facets = 0 /\ timer.retry < MaxRetry
             THEN retryLater
             ELSE [w1 EXCEPT !.dateHidden = TRUE, !.expandBtns = @ + 1]

\* a pending _addExpandButton timer fires
ExpandTimer ==
    \E timer \in BagToSet(expandTimers) :
        /\ TaskStarts
        /\ timer.live => expandBtns < MaxButtons
        /\ Becomes(AddExpandButton(World, timer))
        /\ UNCHANGED <<configVars, mergeVars, callVars>>

\* the click handler of an expand button: it reads magazine-filters-expanded
\* off the filter bar its closure holds and collapses or expands
ExpandToggle(w, isExpanded) ==
    IF isExpanded
    THEN [w EXCEPT !.expanded = @ - 1, !.dateHidden = TRUE]
    ELSE [w EXCEPT !.expanded = @ + 1, !.dateHidden = FALSE]

\* click on an expand button whose filter bar is, or is not, expanded
ExpandClick(isExpanded) ==
    /\ TaskStarts
    /\ IF isExpanded THEN expanded > 0 ELSE expanded < expandBtns
    /\ Becomes(ExpandToggle(World, isExpanded))
    /\ UNCHANGED <<configVars, mergeVars, callVars>>

\* the handlers that may be suspended at once
MaxInflight == 2

\* ui.initialize(): up to the await of this.fsss.search, or the empty state
Initialize(hasQuery) ==
    /\ phase = "ready"
    /\ inflight \cap {"search", "initialize"} = {}
    /\ IF hasQuery
       THEN /\ Cardinality(inflight) < MaxInflight
            /\ Becomes(InitializeStart([World EXCEPT !.urlQuery = TRUE], config))
       ELSE Becomes(ShowEmptyState([World EXCEPT !.urlQuery = FALSE]))
    /\ UNCHANGED <<configVars, mergeVars, callVars>>

\* this.fsss.search(query) resolves with `page` or rejects with `error`
SearchSettles(ok, page, error) ==
    /\ "search" \in inflight
    /\ Becomes(SearchSettled([World EXCEPT !.inflight = @ \ {"search"}], config,
                             ok, page, error))
    /\ UNCHANGED <<configVars, mergeVars, callVars>>

\* initialize() resumes after `await this.search(queryTerm)`
InitializeResumes ==
    /\ returned.pending
    /\ Becomes(InitializeResume([World EXCEPT !.inflight = @ \ {"initialize"},
                                             !.returned = NoReturn,
                                             !.threw = returned.threw],
                                config, returned.page))
    /\ UNCHANGED <<configVars, mergeVars, callVars>>

\* new Date(value + 'T00:00:00Z').toISOString(), value a yyyy-mm-dd date
StartOfDayISO(value) == value \o "T00:00:00.000Z"

\* new Date(value + 'T23:59:59Z').toISOString(), value a yyyy-mm-dd date
EndOfDayISO(value) == value \o "T23:59:59.000Z"

\* the date handling without the deletion of the parameter
ApplyDateFilterKeepParam(w, cfg) ==
    IF Falsy(Leaf2(cfg, "dateFilter", "enabled")) THEN w
    ELSE IF w.startDate # "" \/ w.endDate # ""
         THEN [w EXCEPT !.dateParam =
                    Leaf2(cfg, "dateFilter", "fieldName").s \o ":["
                        \o (IF w.startDate # "" THEN StartOfDayISO(w.startDate)
                            ELSE "*")
                        \o " TO "
                        \o (IF w.endDate # "" THEN EndOfDayISO(w.endDate) ELSE "*")
                        \o "]"]
         ELSE w

\* the date handling of filter and of the themes' tag handlers
ApplyDateFilter(w, cfg) ==
    IF Falsy(Leaf2(cfg, "dateFilter", "enabled")) THEN w
    ELSE IF w.startDate # "" \/ w.endDate # ""
         THEN LET startISO == IF w.startDate # "" THEN StartOfDayISO(w.startDate)
                              ELSE "*"
                  endISO == IF w.endDate # "" THEN EndOfDayISO(w.endDate) ELSE "*"
              IN  [w EXCEPT !.dateParam =
                        Leaf2(cfg, "dateFilter", "fieldName").s \o ":[" \o startISO
                            \o " TO " \o endISO \o "]"]
         ELSE [w EXCEPT !.dateParam = NoParam]

\* the selected values of the blocks this renderer rendered, from the i-th
\* block on: a list in document order, block after block, that holds a value
\* once for every block it is selected in
RECURSIVE SelectedFrom(_, _, _)
SelectedFrom(blocks, by, i) ==
    IF i > Len(blocks) THEN <<>>
    ELSE (IF blocks[i].by = by THEN InOrder(blocks[i].selected) ELSE <<>>)
            \o SelectedFrom(blocks, by, i + 1)

\* the names of the checked '.facet-option input[type="checkbox"]' elements of
\* the document, in document order
CheckedValues(w) == SelectedFrom(w.facetBlocks, "builtin", 1)

\* the data-value of the tags of the document that carry the theme's selected
\* class (minimal-tag-active, magazine-tag-selected), in document order
SelectedTags(w, theme) == SelectedFrom(w.facetBlocks, theme, 1)

\* filter(facet, reset), up to the await of facet.filter(...values)
FilterStart(w, cfg, name, reset) ==
    LET values == IF reset THEN <<>> ELSE CheckedValues(w)
        w1 == Log(ApplyDateFilter(w, cfg), "facet.filter", FilterCall(name, values))
    IN  [w1 EXCEPT !.inflight = @ \cup {"filter"}]

\* what filter, the tag handlers and the reset-all handler do with the page
\* they awaited
Rerender(w, cfg, page) ==
    LET w1 == [w EXCEPT !.latestPage = page]
        w2 == RenderAllFacets(InitFacetContainer(w1, page), cfg, page)
    IN  UpdateResultsInfo(RenderSearchResults(w2, cfg, page), page)

\* filter(facet, reset) after the await: the rest of the try block, and the catch
FilterSettled(w, cfg, ok, page) ==
    IF ~ok THEN Log(w, "error", "filter")
    ELSE LET w1 == Rerender(w, cfg, page)
         IN  IF w1.threw # NoError THEN Log(w1, "error", "filter") ELSE w1

\* the block has a button that calls filter(facet, true): the built-in
\* Reset, the minimal theme's clear button, the magazine theme's Clear of a
\* facet with selected values
HasClearButton(block) ==
    \/ block.by \in {"builtin", "minimal"}
    \/ block.by = "magazine" /\ block.facet.selectedValues # {}

\* the tags of a theme's block lose their selected class
Deselect(w, i) ==
    IF w.facetBlocks[i].by = "builtin" THEN w
    ELSE [w EXCEPT !.facetBlocks[i].selected = {}]

\* click on the Reset or clear button of the i-th block: filter(facet, true)
Filter(i) ==
    /\ TaskStarts
    /\ phase = "ready"
    /\ i \in DOMAIN facetBlocks
    /\ HasClearButton(facetBlocks[i])
    /\ "filter" \notin inflight
    /\ Cardinality(inflight) < MaxInflight
    /\ Becomes(FilterStart(Deselect(World, i), config, facetBlocks[i].facet.name,
                           TRUE))
    /\ UNCHANGED <<configVars, mergeVars, callVars>>

\* input on the checkbox of a value of the i-th block, a built-in one:
\* filter(facet)
CheckboxInput(i, value) ==
    /\ TaskStarts
    /\ phase = "ready"
    /\ i \in DOMAIN facetBlocks
    /\ facetBlocks[i].by = "builtin"
    /\ value \in CountValues(facetBlocks[i].facet.name)
    /\ "filter" \notin inflight
    /\ Cardinality(inflight) < MaxInflight
    /\ LET toggled == IF value \in facetBlocks[i].selected
                      THEN facetBlocks[i].selected \ {value}
                      ELSE facetBlocks[i].selected \cup {value}
           w == [World EXCEPT !.facetBlocks[i].selected = toggled]
       IN  Becomes(FilterStart(w, config, facetBlocks[i].facet.name, FALSE))
    /\ UNCHANGED <<configVars, mergeVars, callVars>>

\* facet.filter(...values), awaited by filter, settles
FilterSettles(ok, page) ==
    /\ "filter" \in inflight
    /\ Becomes(FilterSettled([World EXCEPT !.inflight = @ \ {"filter"}], config,
                             ok, page))
    /\ UNCHANGED <<configVars, mergeVars, callVars>>

\* click on the tag of a value of the i-th block, one the minimal or the
\* magazine theme rendered: the handler of attachFacetListeners, up to the
\* await of facet.filter
TagClick(i, value) ==
    /\ TaskStarts
    /\ phase = "ready"
    /\ i \in DOMAIN facetBlocks
    /\ facetBlocks[i].listeners \in ThemeRegistry
    /\ value \in CountValues(facetBlocks[i].facet.name)
    /\ "tagFilter" \notin inflight
    /\ Cardinality(inflight) < MaxInflight
    /\ LET toggled == IF value \in facetBlocks[i].selected
                      THEN facetBlocks[i].selected \ {value}
                      ELSE facetBlocks[i].selected \cup {value}
           w == [World EXCEPT !.facetBlocks[i].selected = toggled]
           selectedValues == SelectedTags(w, facetBlocks[i].by)
           w1 == Log(ApplyDateFilter(w, config), "facet.filter",
                     FilterCall(facetBlocks[i].facet.name, selectedValues))
       IN  Becomes([w1 EXCEPT !.inflight = @ \cup {"tagFilter"}])
    /\ UNCHANGED <<configVars, mergeVars, callVars>>

\* facet.filter(...selectedValues), awaited by a tag handler, settles
TagSettles(ok, page) ==
    /\ "tagFilter" \in inflight
    /\ LET w == [World EXCEPT !.inflight = @ \ {"tagFilter"}]
           w1 == Rerender(w, config, page)
       IN  IF ok /\ w1.threw = NoError
           THEN Becomes(w1)
           ELSE Becomes(Log(IF ok THEN w1 ELSE w, "error", "tagFilter"))
    /\ UNCHANGED <<configVars, mergeVars, callVars>>

\* the user sets a date input; its change listener, once _setupDateFilter
\* has added it, calls filter(page.facets[0])
DateInput(start, end) ==
    /\ TaskStarts
    /\ phase = "ready"
    /\ doc # "head"
    /\ <<start, end>> # <<startDate, endDate>>
    /\ LET w == [World EXCEPT !.startDate = start, !.endDate = end]
       IN  IF dateBound # ""
           THEN /\ "filter" \notin inflight
                /\ Cardinality(inflight) < MaxInflight
                /\ Becomes(FilterStart(w, config, dateBound, FALSE))
           ELSE Becomes(w)
    /\ UNCHANGED <<configVars, mergeVars, callVars>>

\* click on #reset-date-filter, whose onclick _setupDateFilter has set: both
\* inputs are emptied, the date parameter is deleted and filter(page.facets[0])
\* is called, whatever the inputs held
ResetDateClick ==
    /\ TaskStarts
    /\ phase = "ready"
    /\ dateBound # ""
    /\ "filter" \notin inflight
    /\ Cardinality(inflight) < MaxInflight
    /\ Becomes(FilterStart([World EXCEPT !.startDate = "", !.endDate = "",
                                         !.dateParam = NoParam],
                           config, dateBound, FALSE))
    /\ UNCHANGED <<configVars, mergeVars, callVars>>

\* click on a pagination button: up to the await of searchResultPage.getPage
PageClick ==
    /\ TaskStarts
    /\ phase = "ready"
    /\ paginationPage # 0
    /\ "getPage" \notin inflight
    /\ Cardinality(inflight) < MaxInflight
    /\ Becomes([World EXCEPT !.inflight = @ \cup {"getPage"}])
    /\ UNCHANGED <<configVars, mergeVars, callVars>>

\* pagination click handler: after getPage(pageNumber) settled; no try block
PageSettles(ok, page) ==
    /\ "getPage" \in inflight
    /\ LET w == [World EXCEPT !.inflight = @ \ {"getPage"}]
           w1 == UpdateResultsInfo(
                    RenderSearchResults([w EXCEPT !.latestPage = page], config, page),
                    page)
       IN  IF ok /\ w1.threw = NoError
           THEN Becomes(w1)
           ELSE Becomes(Log(IF ok THEN w1 ELSE w, "uncaught", "getPage"))
    /\ UNCHANGED <<configVars, mergeVars, callVars>>

\* the reset-all handler without the deletion of the date parameter
ResetStartKeepParam(w, cfg) ==
    LET w1 == IF ~Falsy(Leaf2(cfg, "dateFilter", "enabled"))
              THEN [w EXCEPT !.startDate = "", !.endDate = ""]
              ELSE w
    IN  [Log(w1, "page.resetFacets", "reset") EXCEPT !.inflight = @ \cup {"reset"}]

\* click on #reset-all-facets-btn: up to the await of page.resetFacets()
ResetStart(w, cfg) ==
    LET w1 == IF ~Falsy(Leaf2(cfg, "dateFilter", "enabled"))
              THEN [w EXCEPT !.startDate = "", !.endDate = "", !.dateParam = NoParam]
              ELSE w
    IN  [Log(w1, "page.resetFacets", "reset") EXCEPT !.inflight = @ \cup {"reset"}]

ResetAll ==
    /\ TaskStarts
    /\ phase = "ready"
    /\ resetPage # 0
    /\ "reset" \notin inflight
    /\ Cardinality(inflight) < MaxInflight
    /\ Becomes(ResetStart(World, config))
    /\ UNCHANGED <<configVars, mergeVars, callVars>>

\* reset-all handler: after page.resetFacets() settled; no try block
ResetSettles(ok, page) ==
    /\ "reset" \in inflight
    /\ LET w == [World EXCEPT !.inflight = @ \ {"reset"}]
           w1 == Rerender(w, config, page)
       IN  IF ok /\ w1.threw = NoError
           THEN Becomes(w1)
           ELSE Becomes(Log(IF ok THEN w1 ELSE w, "uncaught", "reset"))
    /\ UNCHANGED <<configVars, mergeVars, callVars>>

----------------------------------------------------------------------------
(* The settings modal.  The value of a text input is a sequence of pieces:   *)
(* a white-space character, or a run of other characters.                   *)

\* the longest text the user types into an input
MaxInput == 3

\* the pieces the user types
Typed == {" ", "a"}

\* a white-space character
IsSpace(piece) == piece = " "

\* the text of a string value, as one piece; no piece for the empty string
Pieces(string) == IF string = "" THEN <<>> ELSE <<string>>

\* String.prototype.trimStart
RECURSIVE TrimStart(_)
TrimStart(text) ==
    IF text # <<>> /\ IsSpace(Head(text)) THEN TrimStart(Tail(text)) ELSE text

\* String.prototype.trimEnd
RECURSIVE TrimEnd(_)
TrimEnd(text) ==
    IF text # <<>> /\ IsSpace(text[Len(text)])
    THEN TrimEnd(SubSeq(text, 1, Len(text) - 1))
    ELSE text

\* String.prototype.trim
Trim(text) == TrimEnd(TrimStart(text))

\* the string a sequence of pieces spells
RECURSIVE Join(_)
Join(text) == IF text = <<>> THEN "" ELSE Head(text) \o Join(Tail(text))

\* localStorage.getItem(key) || fallback, as a string
ItemOr(item, fallback) ==
    IF Falsy(item) THEN KeyOf(fallback) ELSE item.s

\* openSettingsModal(): the modal with its inputs holding the stored values,
\* or the configured defaults
OpenSettingsModal(w, cfg) ==
    IF ~HasBody(w) THEN [w EXCEPT !.threw = TypeError]
    ELSE [w EXCEPT !.modal =
            [open |-> TRUE,
             server |-> Pieces(ItemOr(w.lsServer, Leaf2(cfg, "server", "defaultURL"))),
             preparedSearch |->
                Pieces(ItemOr(w.lsPreparedSearch,
                              Leaf2(cfg, "server", "defaultPreparedSearch")))]]

\* input.value.trim(), without the fallback
TrimmedOnly(text, fallback) == Str(Join(Trim(text)))

\* input.value.trim() || fallback
TrimmedOr(text, fallback) ==
    IF Join(Trim(text)) = "" THEN fallback ELSE Str(Join(Trim(text)))

\* localStorage.setItem(key, value): the value is stored as a string
SetItem(value) == Str(KeyOf(value))

\* the submit handler of #settings-form
SaveSettings(w, cfg) ==
    LET newServer == TrimmedOr(w.modal.server, Leaf2(cfg, "server", "defaultURL"))
        newPreparedSearch ==
            TrimmedOr(w.modal.preparedSearch,
                      Leaf2(cfg, "server", "defaultPreparedSearch"))
        w1 == [w EXCEPT !.lsServer = SetItem(newServer)]
        w2 == [w1 EXCEPT !.lsPreparedSearch = SetItem(newPreparedSearch)]
    IN  Log([w2 EXCEPT !.reloaded = TRUE], "reload", "settings")

\* click on #settings-btn; the open modal's backdrop covers the page
SettingsClick ==
    /\ TaskStarts
    /\ phase = "ready"
    /\ ~reloaded
    /\ settingsBtn = "bound"
    /\ ~modal.open
    /\ Becomes(OpenSettingsModal(World, config))
    /\ UNCHANGED <<configVars, mergeVars, callVars>>

\* the user edits one of the two inputs of the modal
TypeInput(input, text) ==
    /\ TaskStarts
    /\ ~reloaded
    /\ modal.open
    /\ modal[input] # text
    /\ Becomes([World EXCEPT !.modal[input] = text])
    /\ UNCHANGED <<configVars, mergeVars, callVars>>

\* click on #reset-settings
ResetSettings ==
    /\ TaskStarts
    /\ ~reloaded
    /\ modal.open
    /\ Becomes([World EXCEPT
            !.modal.server = Pieces(KeyOf(Leaf2(config, "server", "defaultURL"))),
            !.modal.preparedSearch =
                Pieces(KeyOf(Leaf2(config, "server", "defaultPreparedSearch")))])
    /\ UNCHANGED <<configVars, mergeVars, callVars>>

\* the closeModal timers let to be pending at once
MaxClose == 2

\* click on the close or cancel button, or on the backdrop: closeModal fades
\* the backdrop out and sets the 300 ms timer that removes it
CloseModal ==
    /\ TaskStarts
    /\ ~reloaded
    /\ modal.open
    /\ closeTimers.live + closeTimers.stale < MaxClose
    /\ Becomes([World EXCEPT !.closeTimers.live = @ + 1])
    /\ UNCHANGED <<configVars, mergeVars, callVars>>

\* backdrop.remove() of a closeModal timer: the backdrop of the open modal, or
\* one that was removed before (nothing happens)
RemoveBackdrop(w, live) ==
    IF live
    THEN [w EXCEPT !.modal = NoModal,
                   !.closeTimers = [live |-> 0, stale |-> @.stale + @.live - 1]]
    ELSE [w EXCEPT !.closeTimers.stale = @ - 1]

\* a closeModal timer fires
CloseTimer(live) ==
    /\ TaskStarts
    /\ ~reloaded
    /\ IF live THEN closeTimers.live > 0 ELSE closeTimers.stale > 0
    /\ Becomes(RemoveBackdrop(World, live))
    /\ UNCHANGED <<configVars, mergeVars, callVars>>

\* submit of #settings-form
SubmitSettings ==
    /\ TaskStarts
    /\ ~reloaded
    /\ modal.open
    /\ Becomes(SaveSettings(World, config))
    /\ UNCHANGED <<configVars, mergeVars, callVars>>

----------------------------------------------------------------------------
(* Field extraction and date formatting *)

\* Array.isArray(value) ? value[0] : value
FirstIfArray(value) ==
    IF value.t = "arr"
    THEN IF Len(value.a) > 0 THEN value.a[1] ELSE Undefined
    ELSE value

\* fieldConfig.fallback || null
FallbackOrNull(fieldConfig) ==
    IF Falsy(Get(fieldConfig, "fallback")) THEN Null ELSE Get(fieldConfig, "fallback")

\* for (const field of fieldConfig.fields), from the i-th candidate on
RECURSIVE FirstTruthyFrom(_, _, _, _)
FirstTruthyFrom(result, fields, i, fieldConfig) ==
    IF i > Len(fields) THEN FallbackOrNull(fieldConfig)
    ELSE IF ~Falsy(Get(result, KeyOf(fields[i])))
         THEN FirstIfArray(Get(result, KeyOf(fields[i])))
         ELSE FirstTruthyFrom(result, fields, i + 1, fieldConfig)

\* getField(result, fieldName)
GetField(cfg, result, fieldName) ==
    LET fieldConfig == Get(Get(cfg, "resultFields"), fieldName)
    IN  IF Falsy(fieldConfig) THEN Null
        ELSE IF ~Falsy(Get(fieldConfig, "field"))
             THEN IF ~Falsy(Get(result, KeyOf(Get(fieldConfig, "field"))))
                  THEN FirstIfArray(Get(result, KeyOf(Get(fieldConfig, "field"))))
                  ELSE FallbackOrNull(fieldConfig)
        ELSE IF ~Falsy(Get(fieldConfig, "fields"))
             THEN FirstTruthyFrom(result, Get(fieldConfig, "fields").a, 1,
                                  fieldConfig)
        ELSE Null

\* the time value of an unparseable date
NaN == [t |-> "nan"]

\* the string new Date(value) parses: a string itself, an array as its
\* elements joined
DateString(value) ==
    CASE value.t = "str" -> value.s
      [] value.t = "arr" /\ Len(value.a) = 0 -> ""
      [] value.t = "arr" /\ Len(value.a) = 1 /\ value.a[1].t = "str" -> value.a[1].s
      [] OTHER -> "[object]"

\* new Date(value), for the date strings that occur in results
NewDate(value) ==
    CASE DateString(value) = "2024-03-01T10:00:00Z" ->
            [year |-> "2024", month |-> 3, day |-> "1"]
      [] DateString(value) = "2023-12-24T10:00:00Z" ->
            [year |-> "2023", month |-> 12, day |-> "24"]
      [] OTHER -> NaN

\* the locales Intl accepts among those that occur in configurations
SupportedLocale(locale) == locale.t = "str" /\ locale.s \in {"en", "en-GB"}

\* month: 'short'
ShortMonth(month) ==
    <<"Jan", "Feb", "Mar", "Apr", "May", "Jun", "Jul", "Aug", "Sep", "Oct", "Nov",
      "Dec">>[month]

\* an exception of the call
Throws(error) == [t |-> "throws", error |-> error]

\* date.toLocaleDateString(locale, format), format the default descriptor
\* { year: 'numeric', month: 'short', day: 'numeric' }; an invalid date gives
\* 'Invalid Date' before the locale is looked at
ToLocaleDateString(date, locale) ==
    IF date = NaN THEN Str("Invalid Date")
    ELSE IF ~SupportedLocale(locale) THEN Throws("RangeError")
    ELSE IF locale.s = "en-GB"
         THEN Str(date.day \o " " \o ShortMonth(date.month) \o " " \o date.year)
         ELSE Str(ShortMonth(date.month) \o " " \o date.day \o ", " \o date.year)

\* formatDate(result)
FormatDate(cfg, result) ==
    LET dateConfig == Get(Get(cfg, "resultFields"), "date")
        dateValue == Get(result, KeyOf(Get(dateConfig, "field")))
    IN  IF Falsy(dateValue) THEN Get(dateConfig, "fallback")
        ELSE LET out == ToLocaleDateString(NewDate(dateValue), Get(dateConfig, "locale"))
             IN  IF out.t = "throws" THEN Get(dateConfig, "fallback") ELSE out

\* a call of getField(result, fieldName) on the constructed instance
GetFieldCall(fieldName) ==
    /\ phase = "ready"
    /\ fOut = NoCall
    /\ fName' = Str(fieldName)
    /\ fOut' = GetField(config, fResult, fieldName)
    /\ UNCHANGED <<fResult, configVars, mergeVars>>
    /\ Becomes([World EXCEPT !.effects = effects])

\* a call of formatDate(result) on the constructed instance
FormatDateCall ==
    /\ phase = "ready"
    /\ fOut = NoCall
    /\ fName' = Str("formatDate")
    /\ fOut' = FormatDate(config, fResult)
    /\ UNCHANGED <<fResult, configVars, mergeVars>>
    /\ Becomes([World EXCEPT !.effects = effects])

----------------------------------------------------------------------------
(* Specifications *)

\* a document with or without a stylesheet link that the page itself carries
InitDocument ==
    /\ doc \in {"head", "body", "loaded"}
    /\ dclListeners = <<>>
    /\ bodyClasses = {}
    /\ headLinks \in {{}, {[theme |-> "minimal", own |-> FALSE]}}
    /\ lsTheme = NoTheme
    /\ bodyOpacity = ""
    /\ fadePending = FALSE
    /\ magLayout = FALSE
    /\ filterBar = FALSE
    /\ expandTimers = EmptyBag
    /\ expandBtns = 0
    /\ expanded = 0
    /\ dateHidden = FALSE
    /\ facetBlocks = <<>>
    /\ resultCards = <<>>
    /\ paginationPage = 0
    /\ resetPage = 0
    /\ resultsInfo = NoText
    /\ urlQuery = FALSE
    /\ startDate = ""
    /\ endDate = ""
    /\ dateParam = NoParam
    /\ dateBound = ""
    /\ settingsBtn = "none"
    /\ modal = NoModal
    /\ closeTimers = NoCloseTimers
    /\ reloaded = FALSE

\* the fields the constructor sets before it validates
InitInstance ==
    /\ phase = "new"
    /\ config = Undefined
    /\ thrown = <<>>
    /\ currentTheme = NoTheme
    /\ currentThemeId = NoTheme
    /\ loadedThemeCSS = <<>>
    /\ facetContainer = FALSE
    /\ currentPage = NoPage
    /\ latestPage = NoPage
    /\ inflight = {}
    /\ returned = NoReturn
    /\ effects = <<>>

NoMergeCall ==
    /\ mTarget = NoCall
    /\ mSource = NoCall
    /\ mOut = NoCall

NoFieldCall ==
    /\ fResult = NoCall
    /\ fName = NoCall
    /\ fOut = NoCall

\* no settings were saved by an earlier visit
NothingStored ==
    /\ lsServer = NoItem
    /\ lsPreparedSearch = NoItem

Init ==
    InitDocument /\ InitInstance /\ NoMergeCall /\ NoFieldCall /\ NothingStored

\* the theme lifecycle: construction, theme switches, the document's loading
\* and the themes' timers
Next ==
    \/ \E userConfig \in ThemedUserConfigs : Construct(userConfig)
    \/ \E themeId \in ThemeIds : SwitchTheme(themeId)
    \/ BodyParsed
    \/ DOMContentLoaded
    \/ FadeTimer
    \/ ExpandTimer
    \/ \E isExpanded \in BOOLEAN : ExpandClick(isExpanded)

Spec == Init /\ [][Next]_vars

\* construction, theme switches, _unloadTheme called on its own, the
\* document's loading and the fade timer
NextUnload ==
    \/ \E userConfig \in ThemedUserConfigs : Construct(userConfig)
    \/ \E themeId \in ThemeIds : SwitchTheme(themeId)
    \/ UnloadThemeCall
    \/ BodyParsed
    \/ DOMContentLoaded
    \/ FadeTimer

SpecUnload == Init /\ [][NextUnload]_vars

\* a loaded document and a complete configuration that names no theme
InitRender ==
    /\ Init
    /\ doc = "loaded"
    /\ headLinks = {}

RenderUserConfigs ==
    {UserConfig(Str("https://api"), Str("Index"), Str("title"),
                Arr(<<Str("content"), Str("text")>>), Arr(<<Str("link")>>),
                Absent, Str("meta_date"), Str("date"), Str("language_keyword"),
                Absent)}

\* searching, filtering, paging and switches between the default and the
\* minimal theme on a loaded document
NextRender ==
    \/ \E userConfig \in RenderUserConfigs : Construct(userConfig)
    \/ \E themeId \in {"default", "minimal"} : SwitchTheme(themeId)
    \/ \E hasQuery \in BOOLEAN : Initialize(hasQuery)
    \/ \E ok \in BOOLEAN, page \in Pages : SearchSettles(ok, page, NetworkError)
    \/ InitializeResumes
    \/ \E i \in 1..MaxBlocks : Filter(i)
    \/ \E ok \in BOOLEAN, page \in Pages : FilterSettles(ok, page)
    \/ PageClick
    \/ \E ok \in BOOLEAN, page \in Pages : PageSettles(ok, page)
    \/ ResetAll
    \/ \E ok \in BOOLEAN, page \in Pages : ResetSettles(ok, page)

SpecRender == InitRender /\ [][NextRender]_vars

\* the complete configuration with a hooks group: each hook absent, returning
\* its argument, or throwing
HookKinds == {Absent, Fn("identity"), Fn("throwUndefined"), Fn("throwError")}

HookUserConfigs ==
    {Obj([k \in DOMAIN uc.o \cup {"hooks"} |->
            IF k = "hooks"
            THEN Literal([beforeSearch |-> before, afterSearch |-> after,
                          beforeRender |-> beforeRender,
                          afterRender |-> afterRender])
            ELSE uc.o[k]]) :
        uc \in RenderUserConfigs, before \in HookKinds, after \in HookKinds,
        beforeRender \in HookKinds, afterRender \in HookKinds}

\* the values the external client rejects with
ClientErrors == {NetworkError, Str("timeout"), Null, Undefined}

\* page load: construction, the document's loading, initialize() and its search
NextSearch ==
    \/ \E userConfig \in HookUserConfigs : Construct(userConfig)
    \/ BodyParsed
    \/ DOMContentLoaded
    \/ \E hasQuery \in BOOLEAN : Initialize(hasQuery)
    \/ \E ok \in BOOLEAN, page \in Pages, error \in ClientErrors :
            SearchSettles(ok, page, error)
    \/ InitializeResumes

SpecSearch == Init /\ [][NextSearch]_vars

\* a user configuration with one more top-level member, or without it when
\* the value is Absent
With(userConfig, key, value) ==
    Literal([k \in DOMAIN userConfig.o \cup {key} |->
                IF k = key THEN value ELSE userConfig.o[k]])

\* complete configurations: no theme or the minimal theme, with or without a
\* resultTemplate function
ItemUserConfigs ==
    {With(UserConfig(Str("https://api"), Str("Index"), Str("title"),
                     Arr(<<Str("content"), Str("text")>>), Arr(<<Str("link")>>),
                     Absent, Str("meta_date"), Str("date"),
                     Str("language_keyword"), th),
          "resultTemplate", template) :
        th \in {Absent, Str("minimal")}, template \in {Absent, Fn("template")}}

\* what the client may answer with: well-formed and malformed pages
AnyPages == Pages \cup MalformedPages

\* searching and filtering on a loaded document, the client answering with
\* well-formed and malformed pages
NextItems ==
    \/ \E userConfig \in ItemUserConfigs : Construct(userConfig)
    \/ \E hasQuery \in BOOLEAN : Initialize(hasQuery)
    \/ \E ok \in BOOLEAN, page \in AnyPages : SearchSettles(ok, page, NetworkError)
    \/ InitializeResumes
    \/ \E i \in 1..MaxBlocks : Filter(i)
    \/ \E ok \in BOOLEAN, page \in AnyPages : FilterSettles(ok, page)
    \/ \E i \in 1..MaxBlocks, value \in FacetValueSet : TagClick(i, value)
    \/ \E ok \in BOOLEAN, page \in AnyPages : TagSettles(ok, page)

SpecItems == InitRender /\ [][NextItems]_vars

\* complete configurations that name the minimal theme
RaceUserConfigs ==
    {UserConfig(Str("https://api"), Str("Index"), Str("title"),
                Arr(<<Str("content"), Str("text")>>), Arr(<<Str("link")>>),
                Absent, Str("meta_date"), Str("date"), Str("language_keyword"),
                Str("minimal"))}

\* searches, filters and tag filters that overlap on a loaded document
NextRace ==
    \/ \E userConfig \in RaceUserConfigs : Construct(userConfig)
    \/ \E hasQuery \in BOOLEAN : Initialize(hasQuery)
    \/ \E ok \in BOOLEAN, page \in Pages : SearchSettles(ok, page, NetworkError)
    \/ InitializeResumes
    \/ \E i \in 1..MaxBlocks : Filter(i)
    \/ \E ok \in BOOLEAN, page \in Pages : FilterSettles(ok, page)
    \/ \E i \in 1..MaxBlocks, value \in FacetValueSet : TagClick(i, value)
    \/ \E ok \in BOOLEAN, page \in Pages : TagSettles(ok, page)

SpecRace == InitRender /\ [][NextRace]_vars

\* the values a date input holds: empty or a day
DateValues == {"", "2024-03-01"}

\* complete configurations with the minimal theme that differ in
\* dateFilter.enabled and in features.dateFilter
DateUserConfigs ==
    {With(UserConfig(Str("https://api"), Str("Index"), Str("title"),
                     Arr(<<Str("content"), Str("text")>>), Arr(<<Str("link")>>),
                     enabled, Str("meta_date"), Str("date"),
                     Str("language_keyword"), Str("minimal")),
          "features", Literal([dateFilter |-> flag])) :
        enabled \in {Absent, Bool(FALSE)}, flag \in {Absent, Bool(FALSE)}}

\* searching, the date inputs, filters and tag filters on a loaded document
NextDate ==
    \/ \E userConfig \in DateUserConfigs : Construct(userConfig)
    \/ \E hasQuery \in BOOLEAN : Initialize(hasQuery)
    \/ \E ok \in BOOLEAN, page \in Pages : SearchSettles(ok, page, NetworkError)
    \/ InitializeResumes
    \/ \E start \in DateValues, end \in DateValues : DateInput(start, end)
    \/ ResetDateClick
    \/ \E i \in 1..MaxBlocks : Filter(i)
    \/ \E ok \in BOOLEAN, page \in Pages : FilterSettles(ok, page)
    \/ \E i \in 1..MaxBlocks, value \in FacetValueSet : TagClick(i, value)
    \/ \E ok \in BOOLEAN, page \in Pages : TagSettles(ok, page)

SpecDate == InitRender /\ [][NextDate]_vars

\* the values a physical field of a result holds: none, a scalar, a list
FieldValues ==
    {Absent, Str(""), Str("a"), Arr(<<>>), Arr(<<Str("b")>>), Arr(<<Str("")>>)}

\* the values the date field of a result holds
DateFieldValues ==
    {Absent, Str(""), Str("2024-03-01T10:00:00Z"), Str("not a date"),
     Arr(<<Str("2023-12-24T10:00:00Z")>>)}

\* the results of the search client
Results ==
    {Literal([title |-> Str("T"), content |-> c, description |-> d, text |-> x,
              date |-> dt]) :
        c \in FieldValues, d \in FieldValues, x \in FieldValues,
        dt \in DateFieldValues}

\* complete configurations with three candidate description fields, that
\* differ in resultFields.date.locale
FieldUserConfigs ==
    {With(uc, "resultFields",
          Obj([k \in DOMAIN uc.o.resultFields.o |->
                IF k = "date" THEN Literal([field |-> Str("date"), locale |-> locale])
                ELSE uc.o.resultFields.o[k]])) :
        uc \in {UserConfig(Str("https://api"), Str("Index"), Str("title"),
                           Arr(<<Str("content"), Str("description"), Str("text")>>),
                           Arr(<<Str("link")>>), Absent, Str("meta_date"),
                           Str("date"), Str("language_keyword"), Absent)},
        locale \in {Absent, Str("en-GB"), Str("en_US")}}

InitField ==
    /\ InitDocument /\ doc = "loaded" /\ headLinks = {}
    /\ InitInstance
    /\ NoMergeCall
    /\ NothingStored
    /\ fResult \in Results
    /\ fName = NoCall
    /\ fOut = NoCall

\* getField and formatDate on their own: the calls a renderer makes on a result
NextField ==
    \/ \E userConfig \in FieldUserConfigs : Construct(userConfig)
    \/ \E fieldName \in {"title", "description", "link", "date", "author"} :
            GetFieldCall(fieldName)
    \/ FormatDateCall

SpecField == InitField /\ [][NextField]_vars

\* the texts the user types: up to MaxInput pieces
RECURSIVE TextsUpTo(_)
TextsUpTo(n) ==
    IF n = 0 THEN {<<>>}
    ELSE TextsUpTo(n - 1)
            \cup {Append(text, piece) : text \in TextsUpTo(n - 1), piece \in Typed}

\* complete configurations with and without the settings button
SettingsUserConfigs ==
    {With(uc, "features", Literal([settingsModal |-> flag])) :
        uc \in RenderUserConfigs, flag \in {Absent, Bool(FALSE)}}

\* a document that is still loading or loaded; settings saved by an earlier
\* visit, or none
InitSettings ==
    /\ InitDocument /\ doc \in {"body", "loaded"} /\ headLinks = {}
    /\ InitInstance
    /\ NoMergeCall
    /\ NoFieldCall
    /\ lsServer \in {NoItem, Str("https://old")}
    /\ lsPreparedSearch \in {NoItem, Str("Old")}

\* construction, the document's loading and the settings modal
NextSettings ==
    \/ \E userConfig \in SettingsUserConfigs : Construct(userConfig)
    \/ DOMContentLoaded
    \/ SettingsClick
    \/ \E input \in {"server", "preparedSearch"}, text \in TextsUpTo(MaxInput) :
            TypeInput(input, text)
    \/ ResetSettings
    \/ CloseModal
    \/ \E live \in BOOLEAN : CloseTimer(live)
    \/ SubmitSettings

SpecSettings == InitSettings /\ [][NextSettings]_vars

\* pages of two facets whose selected values the client reports
SelectPages ==
    {PageOf(1, <<SelectedFacet("mime_type", mime), SelectedFacet("language", lang)>>,
            1, 0, Num(1), Num(1), Num(2)) :
        mime \in {{}, {"pdf"}}, lang \in {{}, {"en"}}}

\* complete configurations: no theme, the minimal or the magazine theme
SelectUserConfigs ==
    {UserConfig(Str("https://api"), Str("Index"), Str("title"),
                Arr(<<Str("content"), Str("text")>>), Arr(<<Str("link")>>),
                Absent, Str("meta_date"), Str("date"), Str("language_keyword"),
                th) :
        th \in {Absent, Str("minimal"), Str("magazine")}}

\* searching, then selecting facet values and changing the date inputs, under
\* the built-in and the themes' facet renderings
NextSelect ==
    \/ \E userConfig \in SelectUserConfigs : Construct(userConfig)
    \/ Initialize(TRUE)
    \/ \E page \in SelectPages : SearchSettles(TRUE, page, NetworkError)
    \/ InitializeResumes
    \/ \E i \in 1..MaxBlocks, value \in FacetValueSet : CheckboxInput(i, value)
    \/ \E i \in 1..MaxBlocks, value \in FacetValueSet : TagClick(i, value)
    \/ ExpandTimer
    \/ \E isExpanded \in BOOLEAN : ExpandClick(isExpanded)
    \/ \E start \in DateValues : DateInput(start, "")
    \/ ResetDateClick
    \/ \E ok \in BOOLEAN, page \in SelectPages : FilterSettles(ok, page)
    \/ \E ok \in BOOLEAN, page \in SelectPages : TagSettles(ok, page)

SpecSelect == InitRender /\ [][NextSelect]_vars

\* complete configurations: no theme or the minimal theme
StackUserConfigs ==
    {UserConfig(Str("https://api"), Str("Index"), Str("title"),
                Arr(<<Str("content"), Str("text")>>), Arr(<<Str("link")>>),
                Absent, Str("meta_date"), Str("date"), Str("language_keyword"),
                th) :
        th \in {Absent, Str("minimal")}}

\* selecting facet values and changing the date inputs after switchTheme has
\* appended the blocks of the held page to the blocks already rendered
NextStack ==
    \/ \E userConfig \in StackUserConfigs : Construct(userConfig)
    \/ \E themeId \in {"default", "minimal"} : SwitchTheme(themeId)
    \/ Initialize(TRUE)
    \/ \E page \in Pages : SearchSettles(TRUE, page, NetworkError)
    \/ InitializeResumes
    \/ \E i \in 1..MaxBlocks, value \in FacetValueSet : CheckboxInput(i, value)
    \/ \E i \in 1..MaxBlocks, value \in FacetValueSet : TagClick(i, value)
    \/ \E start \in DateValues : DateInput(start, "")
    \/ ResetDateClick
    \/ \E ok \in BOOLEAN, page \in Pages : FilterSettles(ok, page)
    \/ \E ok \in BOOLEAN, page \in Pages : TagSettles(ok, page)

SpecStack == InitRender /\ [][NextStack]_vars

\* pages without facets of 0 or 2 results: first pages of every total, reported
\* or not; the pages of a total of 3, two to the page; second pages of 12
CountPages ==
    {PageOf(6 + results, <<>>, results, 0, numRows, Num(1), Num(10)) :
        results \in {0, 2}, numRows \in {Undefined, Num(0), Num(3), Num(12)}}
    \cup {PageOf(8, <<>>, 2, 0, Num(3), pageNo, Num(2)) :
              pageNo \in {Undefined, Num(1), Num(2)}}
    \cup {PageOf(8, <<>>, 2, 0, Num(12), Num(2), rows) :
              rows \in {Undefined, Num(10)}}

\* searching and paging, the client answering with pages of every count
NextPaging ==
    \/ \E userConfig \in RenderUserConfigs : Construct(userConfig)
    \/ \E hasQuery \in BOOLEAN : Initialize(hasQuery)
    \/ \E ok \in BOOLEAN, page \in CountPages : SearchSettles(ok, page, NetworkError)
    \/ InitializeResumes
    \/ PageClick
    \/ \E ok \in BOOLEAN, page \in CountPages : PageSettles(ok, page)

SpecPaging == InitRender /\ [][NextPaging]_vars

\* complete configurations without a theme, dateFilter.enabled left at its
\* default or switched off
ResetUserConfigs ==
    {UserConfig(Str("https://api"), Str("Index"), Str("title"),
                Arr(<<Str("content"), Str("text")>>), Arr(<<Str("link")>>),
                enabled, Str("meta_date"), Str("date"), Str("language_keyword"),
                Absent) :
        enabled \in {Absent, Bool(FALSE)}}

\* searching, the date inputs, their filter and the reset-all button
NextReset ==
    \/ \E userConfig \in ResetUserConfigs : Construct(userConfig)
    \/ Initialize(TRUE)
    \/ \E ok \in BOOLEAN, page \in Pages : SearchSettles(ok, page, NetworkError)
    \/ InitializeResumes
    \/ \E start \in DateValues, end \in DateValues : DateInput(start, end)
    \/ ResetDateClick
    \/ \E ok \in BOOLEAN, page \in Pages : FilterSettles(ok, page)
    \/ ResetAll
    \/ \E ok \in BOOLEAN, page \in Pages : ResetSettles(ok, page)

SpecReset == InitRender /\ [][NextReset]_vars

\* complete configurations that name the magazine theme or none
ExpandUserConfigs ==
    {UserConfig(Str("https://api"), Str("Index"), Str("title"),
                Arr(<<Str("content"), Str("text")>>), Arr(<<Str("link")>>),
                Absent, Str("meta_date"), Str("date"), Str("language_keyword"),
                th) :
        th \in {Absent, Str("magazine")}}

\* the magazine theme switched on and off on a loaded document, its timers,
\* and a search whose facets may or may not be rendered before a timer fires
NextExpand ==
    \/ \E userConfig \in ExpandUserConfigs : Construct(userConfig)
    \/ \E themeId \in {"default", "magazine"} : SwitchTheme(themeId)
    \/ ExpandTimer
    \/ \E isExpanded \in BOOLEAN : ExpandClick(isExpanded)
    \/ Initialize(TRUE)
    \/ \E page \in Pages : SearchSettles(TRUE, page, NetworkError)
    \/ InitializeResumes

SpecExpand == InitRender /\ [][NextExpand]_vars

\* construction alone, over every combination of supplied and missing leaves
NextConfig == \E userConfig \in AllUserConfigs : Construct(userConfig)

SpecConfig == Init /\ [][NextConfig]_vars

\* _deepMerge on its own: the arguments it is called with
MergeLeaves == {Null, Str("x"), Arr(<<Str("y")>>)}

MergeInner ==
    {Literal([p |-> vp, q |-> vq]) :
        vp \in MergeLeaves \cup {Absent}, vq \in MergeLeaves \cup {Absent}}

MergeObjects ==
    {Literal([a |-> va, b |-> vb]) :
        va \in MergeLeaves \cup MergeInner \cup {Absent},
        vb \in {Absent, Str("x"), Literal([p |-> Str("x"), q |-> Absent])}}

\* this._deepMerge(target, source)
MergeCall ==
    /\ mOut = NoCall
    /\ mOut' = DeepMerge(mTarget, mSource)
    /\ UNCHANGED <<mTarget, mSource, configVars, callVars>>
    /\ Becomes([World EXCEPT !.effects = effects])

NextMerge == MergeCall

\* the arguments of the call, before it
InitMerge ==
    /\ InitDocument /\ doc = "loaded" /\ headLinks = {}
    /\ InitInstance
    /\ mTarget \in MergeObjects
    /\ mSource \in MergeObjects
    /\ mOut = NoCall
    /\ NoFieldCall
    /\ NothingStored

SpecMerge == InitMerge /\ [][NextMerge]_vars

----------------------------------------------------------------------------
(* C1 .. C3: configuration *)

Range(seq) == {seq[i] : i \in 1..Len(seq)}

\* a leaf the caller did not provide a usable value for
NotProvided(v) == v.t \in {"undefined", "null"} \/ v = Str("")

\* a list the caller did not provide, or provided empty
NoList(v) == v.t \in {"undefined", "null"} \/ v = Arr(<<>>)

RequiredPaths ==
    {"server.defaultURL", "server.defaultPreparedSearch", "resultFields.title.field",
     "resultFields.description.fields", "resultFields.link.fields",
     DateFilterFieldName}

\* the required leaf at `path` is missing from the merged configuration
LeafMissing(cfg, path) ==
    CASE path = "server.defaultURL" ->
            NotProvided(Get(Get(cfg, "server"), "defaultURL"))
      [] path = "server.defaultPreparedSearch" ->
            NotProvided(Get(Get(cfg, "server"), "defaultPreparedSearch"))
      [] path = "resultFields.title.field" ->
            NotProvided(Get(Get(Get(cfg, "resultFields"), "title"), "field"))
      [] path = "resultFields.description.fields" ->
            NoList(Get(Get(Get(cfg, "resultFields"), "description"), "fields"))
      [] path = "resultFields.link.fields" ->
            NoList(Get(Get(Get(cfg, "resultFields"), "link"), "fields"))
      [] path = DateFilterFieldName ->
            /\ Get(Get(cfg, "dateFilter"), "enabled") = Bool(TRUE)
            /\ NotProvided(Get(Get(cfg, "dateFilter"), "fieldName"))

\* C1: once the constructor has run, the error it threw lists a required path
\* exactly when that leaf is missing from the merged configuration, each path
\* once, and it threw exactly when some required leaf is missing.
ValidationReportsEveryMissingPath ==
    phase # "new" =>
        /\ \A path \in RequiredPaths :
                path \in Range(thrown) <=> LeafMissing(config, path)
        /\ Range(thrown) \subseteq RequiredPaths
        /\ Len(thrown) = Cardinality(Range(thrown))
        /\ phase = "failed" <=> \E path \in RequiredPaths : LeafMissing(config, path)

\* a construction that failed on three or more missing leaves, the first and
\* the last of the checklist among them
SeveralPathsReported ==
    /\ phase = "failed"
    /\ Len(thrown) >= 3
    /\ thrown[1] = "server.defaultURL"
    /\ thrown[Len(thrown)] = DateFilterFieldName

\* every leaf of `src` is found unchanged at the same place of `out`
RECURSIVE UserWins(_, _)
UserWins(out, src) ==
    /\ out.t = "obj"
    /\ \A k \in DOMAIN src.o :
            /\ k \in DOMAIN out.o
            /\ IF src.o[k].t = "obj"
               THEN UserWins(out.o[k], src.o[k])
               ELSE out.o[k] = src.o[k]

\* every key of `tgt` that `src` does not supply keeps its default in `out`
RECURSIVE DefaultsKept(_, _, _)
DefaultsKept(out, tgt, src) ==
    \A k \in DOMAIN tgt.o :
        IF k \notin DOMAIN src.o
        THEN k \in DOMAIN out.o /\ out.o[k] = tgt.o[k]
        ELSE (tgt.o[k].t = "obj" /\ src.o[k].t = "obj")
                => DefaultsKept(out.o[k], tgt.o[k], src.o[k])

\* C2: the merge result holds every value the user supplied, at every depth,
\* and every default the user did not override.
MergeKeepsUserValues ==
    mOut.t # "nocall" =>
        /\ UserWins(mOut, mSource)
        /\ DefaultsKept(mOut, mTarget, mSource)

\* config.resultFields.<name>.<leaf> or config.dateFilter.fieldName is not null
NonNull(v) == v.t \notin {"undefined", "null"}

\* C3: when the constructor has returned, every field mapping that rendering
\* reads is non-null, and so is dateFilter.fieldName when date filtering is on.
RenderingFieldsNonNull ==
    phase = "ready" =>
        /\ NonNull(FieldCfg(config, "title", "field"))
        /\ NonNull(FieldCfg(config, "description", "fields"))
        /\ NonNull(FieldCfg(config, "link", "fields"))
        /\ NonNull(FieldCfg(config, "date", "field"))
        /\ NonNull(FieldCfg(config, "language", "field"))
        /\ ~Falsy(Leaf2(config, "dateFilter", "enabled"))
                => NonNull(Leaf2(config, "dateFilter", "fieldName"))

----------------------------------------------------------------------------
(* C4 .. C10: theme activation *)

\* C4: once the constructor has returned, and after any sequence of
\* switchTheme calls, exactly one registered theme is active; when no marker
\* is waiting for DOMContentLoaded, the body carries that theme's marker and
\* no other.
ExactlyOneThemeActive ==
    phase = "ready" =>
        /\ currentTheme \in ThemeRegistry
        /\ currentThemeId = currentTheme
        /\ doc = "loaded" => bodyClasses = {currentThemeId}

\* the link/mark/init entries of theme `new` in a handler's log come after the
\* destroy/unmark entries of every other theme
OldLeavesBeforeNewEnters ==
    \A i, j \in DOMAIN effects :
        (/\ effects[i][1] \in {"link", "mark", "init"}
         /\ effects[j][1] \in {"destroy", "unmark"}
         /\ effects[i][2] # effects[j][2]) => j < i

\* C5: switchTheme deactivates the previous theme before the new one is applied,
\* and the markers of two themes, the one switched from and the one switched
\* to, are never both on the body.
SwitchNeverLeavesBothMarkers ==
    /\ OldLeavesBeforeNewEnters
    /\ Cardinality(bodyClasses) <= 1

\* what produces the markup of a facet block or result card under `theme`
MarkupOf(theme) == IF HasRenderFacet(theme) THEN theme ELSE "builtin"

\* the last handler was switchTheme with a registered id
JustSwitched ==
    \E id \in ThemeRegistry : <<"switchTheme", id>> \in Range(effects)

\* C6: right after switchTheme with a page held, the facet container holds
\* exactly one block per facet of that page, each rendered by the new theme,
\* and the results container holds only cards rendered by the new theme.
SwitchRendersPageOnce ==
    (JustSwitched /\ currentPage # NoPage) =>
        /\ Len(facetBlocks) = Len(currentPage.facets)
        /\ \A i \in DOMAIN facetBlocks :
                /\ facetBlocks[i].facet = currentPage.facets[i]
                /\ facetBlocks[i].by = MarkupOf(currentTheme)
        /\ \A i \in DOMAIN resultCards :
                resultCards[i].kind = "card" => resultCards[i].by = MarkupOf(currentTheme)

\* C7: this.currentPage is the page of the most recent successful search,
\* filter, pagination or reset.
CurrentPageIsLatest == ~returned.pending => currentPage = latestPage

\* _loadTheme is asked for an id that is not registered: by switchTheme, or by
\* the constructor through config.theme.default
ActivatesUnregistered ==
    \/ \E id \in ThemeIds \ ThemeRegistry : SwitchTheme(id)
    \/ \E userConfig \in ThemedUserConfigs :
            /\ Construct(userConfig)
            /\ phase' = "ready"
            /\ \E id \in ThemeIds \ ThemeRegistry :
                    OptGet(Get(config', "theme"), "default") = Str(id)

\* C8: activating an unregistered id warns and leaves the theme reference, the
\* id, the marker classes and the stylesheet links as they were, and calls no
\* destroy and no init hook.
UnregisteredActivationIsNoOp ==
    [][ActivatesUnregistered =>
        /\ UNCHANGED <<currentTheme, currentThemeId, bodyClasses, headLinks,
                       loadedThemeCSS>>
        /\ \E id \in ThemeIds \ ThemeRegistry : <<"warn", id>> \in Range(effects')
        /\ \A i \in DOMAIN effects' :
                effects'[i][1] \notin {"destroy", "init", "link", "mark", "unmark"}]_vars

\* switchTheme('ghost') was called while a theme was active, marked and linked
UnregisteredAskedWhileActive ==
    /\ <<"switchTheme", "ghost">> \in Range(effects)
    /\ <<"warn", "ghost">> \in Range(effects)
    /\ currentTheme \in ThemeRegistry
    /\ currentTheme \in bodyClasses
    /\ Len(loadedThemeCSS) > 0

\* the parts of the document a theme's init hook writes
initEffects == <<bodyOpacity, fadePending, magLayout, filterBar, expandTimers,
                 expandBtns, expanded, dateHidden>>

\* C9: switchTheme with the id that is already active leaves at most one
\* stylesheet link for it and leaves what its init hook did as it was: nothing
\* is applied a second time.
ReactivationIsIdempotent ==
    [][\A id \in ThemeRegistry :
        (currentTheme = id /\ id \in bodyClasses /\ SwitchTheme(id)) =>
            /\ Cardinality({l \in headLinks' : l.theme = id}) <= 1
            /\ currentTheme' = id
            /\ bodyClasses' = bodyClasses
            /\ UNCHANGED initEffects]_vars

\* the stylesheet links this instance added and still tracks
OwnLinks == Range(loadedThemeCSS)

\* every variable of the document and the instance but the handler's log
worldVars == <<doc, dclListeners, bodyClasses, headLinks, currentTheme,
               currentThemeId, loadedThemeCSS, lsTheme, bodyOpacity, fadePending,
               magLayout, filterBar, expandTimers, expandBtns, expanded, dateHidden,
               facetContainer, facetBlocks, resultCards, currentPage, latestPage,
               inflight, returned, paginationPage, resetPage, resultsInfo, urlQuery,
               startDate, endDate, dateParam, dateBound>>

\* C10: _unloadTheme with a theme active calls that theme's destroy hook, takes
\* its marker off the body, removes every stylesheet link this instance added
\* and no other, and clears the theme reference, the id and the link list;
\* with no theme active it changes nothing.
UnloadClearsTheme ==
    [][UnloadThemeCall =>
        IF currentTheme # NoTheme
        THEN /\ <<"destroy", currentTheme>> \in Range(effects')
             /\ currentThemeId \notin bodyClasses'
             /\ headLinks' = headLinks \ OwnLinks
             /\ currentTheme' = NoTheme
             /\ currentThemeId' = NoTheme
             /\ loadedThemeCSS' = <<>>
        ELSE /\ UNCHANGED worldVars
             /\ effects' = <<>>]_vars

\* _unloadTheme has just taken an active theme, its marker and its link away
ThemeUnloaded ==
    /\ phase = "ready"
    /\ currentTheme = NoTheme
    /\ \E id \in ThemeRegistry :
            /\ <<"destroy", id>> \in Range(effects)
            /\ <<"unmark", id>> \in Range(effects)
            /\ id \notin bodyClasses
            /\ \A l \in headLinks : l.theme = id => ~l.own

----------------------------------------------------------------------------
(* C11 .. C20: searching, filtering and rendering *)

\* the error state is what #search-results shows
ErrorStateShown ==
    resultCards = <<[kind |-> "error", by |-> "builtin", page |-> 0]>>

\* C11: search never rejects: when a hook or the client's search call failed,
\* with whatever value, the failure was caught, the error state is shown and
\* search resolved (to null).
SearchNeverRejects ==
    /\ <<"rejects", "search">> \notin Range(effects)
    /\ (<<"error", "search">> \in Range(effects) /\ doc # "head") => ErrorStateShown

\* the step ends in the catch block of filter
FilterFailed == <<"error", "filter">> \in Range(effects')

\* C12: a filter action that fails leaves the facet container, the result
\* container, the pagination and the results-info text exactly as they were,
\* and filter does not reject.
FilterFailureLeavesRenderIntact ==
    [][FilterFailed =>
          /\ UNCHANGED <<facetContainer, facetBlocks, resultCards, paginationPage,
                         resultsInfo>>
          /\ <<"rejects", "filter">> \notin Range(effects')]_vars

\* C13: a rejection of getPage in a pagination click or of resetFacets in
\* the reset-all action never becomes an uncaught rejection.
RejectionsCaughtAtHandler ==
    /\ <<"uncaught", "getPage">> \notin Range(effects)
    /\ <<"uncaught", "reset">> \notin Range(effects)

\* the facet, result and pagination containers show this page and nothing else
ContainersShow(page, blocks, cards, pagination) ==
    /\ Len(blocks) = Len(page.facets)
    /\ \A i \in DOMAIN blocks : blocks[i].facet = page.facets[i]
    /\ \A i \in DOMAIN cards : cards[i].page = page.id
    /\ Len(cards) = (IF page.results = 0 THEN 1 ELSE page.results)
    /\ pagination = (IF page.results = 0 THEN 0 ELSE page.id)

\* the step resumes one of two overlapping search / filter actions with the
\* page its own call resolved with
OverlappedActionResolves ==
    /\ Cardinality(inflight) = 2
    /\ Cardinality(inflight') = 1
    /\ returned.pending /\ ~returned'.pending => returned.page # NoPage
    /\ \A e \in Range(effects') : e[1] \notin {"error", "uncaught", "rejects"}

\* C14: of two overlapping filter / search actions each renders when its own
\* call resolves, so the rendered state, containers and current page, is that
\* of the action that resolved last.
LastResolvedWins ==
    [][OverlappedActionResolves =>
          /\ ContainersShow(latestPage', facetBlocks', resultCards',
                            paginationPage')
          /\ currentPage' = latestPage']_vars

\* the results container holds result cards, not the start, empty or error state
HoldsCards == \A i \in DOMAIN resultCards : resultCards[i].kind = "card"

\* C15: a theme override that throws on one facet or one result is isolated:
\* that item alone is skipped, every other facet and result of the page the
\* pass renders is still rendered by the override.
OverrideThrowIsolatedPerItem ==
    (/\ phase = "ready" /\ currentTheme # NoTheme /\ latestPage # NoPage
     /\ resetPage = latestPage.id) =>
        /\ HasRenderFacet(currentTheme) =>
              \A i \in DOMAIN latestPage.facets :
                  latestPage.facets[i].counts =>
                      \E j \in DOMAIN facetBlocks :
                          /\ facetBlocks[j].facet = latestPage.facets[i]
                          /\ facetBlocks[j].by = currentTheme
        /\ (/\ HasRenderResultCard(currentTheme)
            /\ Falsy(Get(config, "resultTemplate"))
            /\ latestPage.results > 0
            /\ HoldsCards) =>
              Len(resultCards) =
                  latestPage.results - (IF latestPage.badResult > 0 THEN 1 ELSE 0)

\* the renderer the dispatch of a render point must choose
DispatchBy(hasOverride) == IF hasOverride THEN currentTheme ELSE "builtin"

\* the listeners the chosen renderer's element must carry
DispatchListeners(hasOverride, hasAttach) ==
    IF ~hasOverride THEN "builtin"
    ELSE IF hasAttach THEN currentTheme ELSE "none"

\* C16: every facet and every result of the rendered page has exactly one
\* element in its container: the theme override's markup with the theme's
\* listeners attached when the active theme supplies the override, the
\* built-in renderer's element otherwise.
RenderDispatchPerItem ==
    (/\ phase = "ready" /\ currentTheme # NoTheme /\ latestPage # NoPage
     /\ resetPage = latestPage.id) =>
        /\ Len(facetBlocks) = Len(latestPage.facets)
        /\ \A i \in DOMAIN facetBlocks :
              /\ facetBlocks[i].facet = latestPage.facets[i]
              /\ facetBlocks[i].by = DispatchBy(HasRenderFacet(currentTheme))
              /\ facetBlocks[i].listeners =
                    DispatchListeners(HasRenderFacet(currentTheme),
                                      HasAttachFacetListeners(currentTheme))
        /\ (latestPage.results > 0 /\ HoldsCards) =>
              /\ Len(resultCards) = latestPage.results
              /\ \A i \in DOMAIN resultCards :
                    /\ resultCards[i].by =
                          DispatchBy(HasRenderResultCard(currentTheme))
                    /\ resultCards[i].listeners =
                          DispatchListeners(HasRenderResultCard(currentTheme),
                                            HasAttachCardListeners(currentTheme))

\* the step is a filter or a tag handler reaching its external call
FilterCallStarts == (inflight' \ inflight) \cap {"filter", "tagFilter"} # {}

\* config.dateFilter.enabled of the constructed instance
DateFilterEnabled ==
    phase = "ready" /\ Leaf2(config, "dateFilter", "enabled") = Bool(TRUE)

\* the range constraint the claim gives for a pair of boundary values
RangeFor(start, end) ==
    CASE start # "" /\ end = "" -> "meta_date:[" \o start \o "T00:00:00.000Z TO *]"
      [] start = "" /\ end # "" -> "meta_date:[* TO " \o end \o "T23:59:59.000Z]"
      [] start # "" /\ end # "" ->
            "meta_date:[" \o start \o "T00:00:00.000Z TO " \o end
                \o "T23:59:59.000Z]"
      [] OTHER -> NoParam

\* C17: with dateFilter.enabled, every filter leaves the client's date
\* parameter at the range of the two current boundary values: open above with
\* only a start, open below with only an end, both ends with both, and no
\* parameter, a previous one deleted, with neither.
DateRangeFollowsBoundaries ==
    [][(DateFilterEnabled /\ FilterCallStarts) =>
          dateParam' = RangeFor(startDate', endDate')]_vars

\* a filter is in flight that set an open-ended range from a start boundary
StartOnlyRangeSet ==
    /\ DateFilterEnabled
    /\ inflight \cap {"filter", "tagFilter"} # {}
    /\ startDate = "2024-03-01"
    /\ endDate = ""
    /\ dateParam = "meta_date:[2024-03-01T00:00:00.000Z TO *]"

\* a value the claim counts as empty: none, the empty string, the empty list
IsEmptyValue(value) ==
    value.t \in {"undefined", "null"} \/ value = Str("") \/ value = Arr(<<>>)

\* the candidates of resultFields.description.fields, in list order
Candidates == <<"content", "description", "text">>

\* the positions of the candidates that are non-empty in the result
NonEmptyCandidates(result) ==
    {i \in DOMAIN Candidates : ~IsEmptyValue(Get(result, Candidates[i]))}

\* the first element of a list value, the value itself otherwise
Reduced(value) == IF value.t = "arr" THEN value.a[1] ELSE value

\* C18: getField over a list of candidate fields returns the value of the
\* first candidate that is non-empty in the result, reduced to its first
\* element when it is a list, and the configured fallback when none is.
GetFieldFirstNonEmptyWins ==
    (fName = Str("description") /\ fOut # NoCall) =>
        LET filled == NonEmptyCandidates(fResult)
            first == CHOOSE i \in filled : \A j \in filled : i <= j
        IN  IF filled = {}
            THEN fOut = FieldCfg(config, "description", "fallback")
            ELSE fOut = Reduced(Get(fResult, Candidates[first]))

\* formatDate was called on a result whose date field is missing or cannot be
\* parsed as a timestamp
DateMissingOrUnparseable ==
    /\ fName = Str("formatDate")
    /\ fOut # NoCall
    /\ \/ IsEmptyValue(Get(fResult, "date"))
       \/ Get(fResult, "date") = Str("not a date")

\* C19: formatDate never throws, and returns the configured fallback for a
\* result whose date field is missing or unparseable.
FormatDateFallsBack ==
    /\ (fName = Str("formatDate") /\ fOut # NoCall) => fOut.t # "throws"
    /\ DateMissingOrUnparseable => fOut = FieldCfg(config, "date", "fallback")

\* config.features.dateFilter of the constructed instance is false
DateFilterFeatureOff ==
    phase = "ready" /\ Leaf2(config, "features", "dateFilter") = Bool(FALSE)

\* C20: with features.dateFilter false no filter sets a date-range constraint
\* on the search client, whatever the date inputs hold.
FeatureFlagOffSetsNoConstraint == DateFilterFeatureOff => dateParam = NoParam

----------------------------------------------------------------------------
(* C21 .. C30: settings, facet selections, result pages and the magazine   *)
(* theme *)

\* the pieces of text from position from to position to are white space
AllSpace(text, from, to) == \A i \in from..to : IsSpace(text[i])

\* core is text without its leading and trailing white space
IsTrimOf(core, text) ==
    \E lead \in 0..Len(text), trail \in 0..Len(text) :
        /\ lead + trail <= Len(text)
        /\ AllSpace(text, 1, lead)
        /\ AllSpace(text, Len(text) - trail + 1, Len(text))
        /\ core = SubSeq(text, lead + 1, Len(text) - trail)
        /\ core # <<>> => ~IsSpace(core[1]) /\ ~IsSpace(core[Len(core)])

\* stored is what a save of this input persists: the trimmed text, the
\* default for a blank input
PersistedFor(text, default, stored) ==
    \E core \in {SubSeq(text, i, j) : i \in 1..(Len(text) + 1), j \in 0..Len(text)} :
        /\ IsTrimOf(core, text)
        /\ stored = (IF core = <<>> THEN default ELSE Str(Join(core)))

\* C21: a save persists, for each of the two inputs, the trimmed input or the
\* configured default when the input is blank, never the empty string, and
\* reloads the page with both values written.
SavePersistsTrimmedOrDefault ==
    reloaded =>
        /\ PersistedFor(modal.server, Leaf2(config, "server", "defaultURL"), lsServer)
        /\ PersistedFor(modal.preparedSearch,
                        Leaf2(config, "server", "defaultPreparedSearch"),
                        lsPreparedSearch)
        /\ lsServer # Str("") /\ lsServer # NoItem
        /\ lsPreparedSearch # Str("") /\ lsPreparedSearch # NoItem

\* a save with a blank server input and a padded prepared-search input
BlankServerSaved ==
    /\ reloaded
    /\ modal.server = <<" ", " ">>
    /\ lsServer = Str("https://api")
    /\ modal.preparedSearch = <<" ", "a", " ">>
    /\ lsPreparedSearch = Str("a")

\* the step is a click on a checkbox or a tag: a handler toggles a control
\* and reaches its call of facet.filter
SelectionFilters ==
    /\ \E call \in Range(effects') : call[1] = "facet.filter"
    /\ facetBlocks' # facetBlocks
    /\ startDate' = startDate
    /\ endDate' = endDate

\* C22: the values a filter action on a facet passes to facet.filter are
\* exactly the values selected in that facet's own controls, whatever the
\* other facets hold.
FilterPassesOwnSelection ==
    [][SelectionFilters =>
          \E i \in DOMAIN facetBlocks' :
              /\ facetBlocks'[i].selected # facetBlocks[i].selected
              /\ <<"facet.filter",
                   FilterCall(facetBlocks'[i].facet.name,
                              InOrder(facetBlocks'[i].selected))>>
                     \in Range(effects')]_vars

\* the step is a change of a date input whose listener reaches facet.filter
DateChangeFilters ==
    /\ <<startDate', endDate'>> # <<startDate, endDate>>
    /\ \E call \in Range(effects') : call[1] = "facet.filter"

\* the values selected in the controls of the rendered facets
SelectedInFacets == UNION {facetBlocks[i].selected : i \in DOMAIN facetBlocks}

\* C26: under every theme the filter call a date change issues carries the
\* facet values selected in the rendered facets.
DateChangeKeepsSelection ==
    [][DateChangeFilters =>
          <<"facet.filter", FilterCall(dateBound, InOrder(SelectedInFacets))>>
              \in Range(effects')]_vars

\* the step is initialize() resuming with the page search() gave it
SearchPageArrives ==
    returned.pending /\ ~returned'.pending /\ returned.page # NoPage

\* the step is the pagination handler resuming with the page getPage gave it
NextPageArrives == "getPage" \in inflight /\ "getPage" \notin inflight'

\* the page the handler of the step renders
ArrivedPage == IF SearchPageArrives THEN returned.page ELSE latestPage'

\* the step renders a page the client answered with, the URL holding a query
\* term
PageArrives ==
    /\ SearchPageArrives \/ NextPageArrives
    /\ urlQuery'
    /\ \A i \in DOMAIN effects' : effects'[i][1] \notin {"uncaught", "error"}

\* C23: a rendered page that holds at least one result gets exactly one card
\* per result and no empty state; the empty state is shown only for a page that
\* holds no result.
OneCardPerResult ==
    [][PageArrives =>
          IF ArrivedPage.results > 0
          THEN /\ Len(resultCards') = ArrivedPage.results
               /\ \A i \in DOMAIN resultCards' : resultCards'[i].kind = "card"
          ELSE resultCards' = <<[kind |-> "empty", by |-> "builtin",
                                 page |-> ArrivedPage.id]>>]_vars

\* the page reports a total T > 0, a page number p >= 1 and a page size s >= 1
ReportsCounts(page) ==
    /\ page.numRows.t = "num" /\ page.numRows.n > 0
    /\ page.pageNo.t = "num" /\ page.pageNo.n >= 1
    /\ page.rows.t = "num" /\ page.rows.n >= 1

\* C24: for a total T > 0, page number p and page size s the results info shows
\* start = (p-1)*s + 1 and end = min(p*s, T), with 1 <= start <= end <= T on
\* every page that exists; for a total of 0 the text is empty.
ResultsInfoShowsRange ==
    [][PageArrives =>
          LET page == ArrivedPage
              T == page.numRows.n
              p == page.pageNo.n
              s == page.rows.n
          IN  /\ ReportsCounts(page) =>
                    /\ resultsInfo'.start = ((p - 1) * s) + 1
                    /\ resultsInfo'.end = (IF p * s < T THEN p * s ELSE T)
                    /\ resultsInfo'.total = T
                    /\ ((p - 1) * s < T) =>
                          /\ 1 <= resultsInfo'.start
                          /\ resultsInfo'.start <= resultsInfo'.end
                          /\ resultsInfo'.end <= T
              /\ page.numRows = Num(0) => resultsInfo' = NoText]_vars

\* the first page of 12 results, 10 to the page, is on show: "1-10 of 12"
FirstTenOfTwelve ==
    /\ inflight = {}
    /\ latestPage.numRows = Num(12)
    /\ latestPage.pageNo = Num(1)
    /\ latestPage.rows = Num(10)
    /\ resultsInfo = [start |-> 1, end |-> 10, total |-> 12]

\* the step is a click on the reset-all button
ResetClicked == "reset" \in inflight' /\ "reset" \notin inflight

\* the step is the reset-all handler resuming with the page resetFacets gave
ResetPageArrives ==
    /\ "reset" \in inflight /\ "reset" \notin inflight'
    /\ <<"uncaught", "reset">> \notin Range(effects')

\* the facet container, the results and the pagination show this page
ShowsPage(page) ==
    /\ Len(facetBlocks) = Len(page.facets)
    /\ \A i \in DOMAIN facetBlocks : facetBlocks[i].facet = page.facets[i]
    /\ \A i \in DOMAIN resultCards : resultCards[i].page = page.id
    /\ Len(resultCards) = (IF page.results = 0 THEN 1 ELSE page.results)
    /\ paginationPage = (IF page.results = 0 THEN 0 ELSE page.id)
    /\ resetPage = page.id

\* C25 as stated: the reset-all action empties both date inputs and deletes
\* the date parameter, whatever dateFilter.enabled holds, calls the page's
\* resetFacets, and renders the facet container, the results, the pagination
\* and the results info from the page it obtains.
ResetAllAlwaysClearsDates ==
    [][/\ ResetClicked =>
             /\ <<"page.resetFacets", "reset">> \in Range(effects')
             /\ startDate' = "" /\ endDate' = "" /\ dateParam' = NoParam
       /\ ResetPageArrives =>
             /\ ShowsPage(latestPage)'
             /\ resultsInfo'.total = latestPage'.numRows.n
             /\ resultsInfo' = NoText <=> latestPage'.results = 0]_vars

\* C25, amended: the reset-all action calls the page's resetFacets and
\* renders the facet container, the results, the pagination and the results
\* info from the page it obtains; it empties both date inputs and deletes the
\* date parameter when dateFilter.enabled holds, and leaves the inputs as
\* they are when it does not.
ResetAllClearsAndRerenders ==
    [][/\ ResetClicked =>
             /\ <<"page.resetFacets", "reset">> \in Range(effects')
             /\ IF DateFilterEnabled
                THEN startDate' = "" /\ endDate' = "" /\ dateParam' = NoParam
                ELSE UNCHANGED <<startDate, endDate, dateParam>>
       /\ ResetPageArrives =>
             /\ ShowsPage(latestPage)'
             /\ resultsInfo'.total = latestPage'.numRows.n
             /\ resultsInfo' = NoText <=> latestPage'.results = 0]_vars

\* reset-all was clicked with a date range set: the inputs and the parameter
\* are empty while resetFacets is awaited
ResetWithDatesPending ==
    /\ "reset" \in inflight
    /\ <<"page.resetFacets", "reset">> \in Range(effects)
    /\ DateFilterEnabled /\ dateBound # ""
    /\ startDate = "" /\ endDate = "" /\ dateParam = NoParam

\* the step is a switchTheme call of an instance that persists its theme
ThemeSwitched ==
    /\ phase = "ready"
    /\ ~Falsy(OptGet(Get(config, "theme"), "localStorageKey"))
    /\ \E call \in Range(effects') : call[1] = "switchTheme"

\* C27: after every switchTheme call the theme id persisted under
\* config.theme.localStorageKey is the id of the active theme, a registered
\* theme.
PersistedThemeIsActive ==
    [][ThemeSwitched =>
          /\ lsTheme' = currentThemeId'
          /\ lsTheme' \in ThemeRegistry]_vars

\* the step is DOMContentLoaded, themes having been activated before
\* document.body existed
DeferredActivationsRun ==
    /\ doc = "body" /\ doc' = "loaded"
    /\ \E i \in DOMAIN dclListeners : dclListeners[i].kind = "applyClass"

\* how many times the handler called an init hook
InitCalls(log) == Cardinality({i \in DOMAIN log : log[i][1] = "init"})

\* C28: when themes were activated before document.body existed, then after
\* DOMContentLoaded the body carries only the marker of the last activated
\* theme and the init hook has run exactly once, for that theme.
DeferredMarkerOfLastThemeOnly ==
    [][DeferredActivationsRun =>
          /\ bodyClasses' \subseteq {currentThemeId'}
          /\ InitCalls(effects') <= 1
          /\ \A i \in DOMAIN effects' :
                effects'[i][1] = "init" => effects'[i][2] = currentThemeId']_vars

\* C29: once the magazine theme is not the active theme, nothing it added
\* remains (layout class, filter-bar wrapper, expand button, hidden filters),
\* and the document never holds more than one expand button.
MagazineRoundTrip ==
    /\ currentTheme # "magazine" =>
          /\ ~magLayout
          /\ ~filterBar
          /\ expandBtns = 0
          /\ ~dateHidden
    /\ expandBtns <= 1

\* how many pending timers hold a filter bar that is in the document
LiveTimers(timers) ==
    BagCardinality([t \in {x \in BagToSet(timers) : x.live} |-> timers[t]])

\* a timer that fired was rescheduled with its count raised by one
Rescheduled(old, new) ==
    /\ new.live = old.live
    /\ new.retry = old.retry + 1
    /\ old.retry < MaxRetry

\* C30: every pending _addExpandButton timer carries a retry count of 0..5; a
\* new timer is a start (count 0), the reschedule of a timer that fired with a
\* count below 5, or a timer whose filter bar destroy detached; a button is
\* inserted only by a timer that ends its chain, one button at a time.
AddExpandButtonTerminates ==
    [][/\ \A t \in BagToSet(expandTimers') : t.retry \in 0..MaxRetry
       /\ \A new \in BagToSet(expandTimers') :
             CopiesIn(new, expandTimers') > CopiesIn(new, expandTimers) =>
                \/ new.retry = 0 /\ new.live
                \/ \E old \in BagToSet(expandTimers) :
                        /\ CopiesIn(old, expandTimers') < CopiesIn(old, expandTimers)
                        /\ Rescheduled(old, new)
                \/ \E old \in BagToSet(expandTimers) :
                        ~new.live /\ old.live /\ old.retry = new.retry
       /\ LiveTimers(expandTimers') <= 1
       /\ expandBtns' # expandBtns =>
             /\ expandBtns' = expandBtns + 1
             /\ \E t \in BagToSet(expandTimers) :
                   /\ t.live
                   /\ expandTimers' = expandTimers (-) SetToBag({t})
                   /\ (t.retry = MaxRetry \/ Len(facetBlocks) > 0)]_vars

\* the chain ran out of retries without a facet and inserted its button
ButtonAfterLastRetry ==
    /\ currentTheme = "magazine"
    /\ expandBtns = 1
    /\ expandTimers = EmptyBag
    /\ Len(facetBlocks) = 0

====
